---- MODULE Spec2Model ----
(***************************************************************************)
(* The "Learn with Jiji" HTTP service: the Express pipeline of             *)
(* src/src/server.ts (body parser, routing, terminal handlers), the route  *)
(* POST /ask-jiji = authenticate -> validateBody(askJijiSchema) ->         *)
(* handleAskJiji, and the detached query-log write of saveQuery.           *)
(*                                                                         *)
(* JavaScript runs each handler to its next await without interruption;    *)
(* an action of the model is one such synchronous block, or the settling   *)
(* of one awaited call.  The one block that is split in two is the tail of *)
(* handleAskJiji (saveQuery is called, then the response is sent), so that *)
(* the order of the two is visible; no other action runs between the two   *)
(* halves (EventLoopFree).                                                 *)
(*                                                                         *)
(* Specifications:                                                         *)
(*   Spec           the pipeline serving requests, under every setting of  *)
(*                  the keys; no termination signal arrives                *)
(*   SpecLifecycle  the same with SIGTERM / SIGINT and the close of the    *)
(*                  listener, every key set                                *)
(*   SpecErrors     the terminal error handler applied to plain errors,    *)
(*                  framework errors and AppErrors                         *)
(*   SpecAnswer     handleAskJiji on validated queries that exercise the   *)
(*                  keywords of generateMockAnswer                         *)
(*   SpecStore      the tables after both migrations, written and read by  *)
(*                  database clients under the row-level-security policies *)
(*                  and by the privileged role, with identities created    *)
(*                  and changed, profiles deleted, the migration re-run    *)
(*   SpecIdentities the store while identities are created and changed and *)
(*                  nothing but the trigger writes to profiles             *)
(*   SpecAuth       authenticate on bearer tokens of every shape           *)
(*   SpecLive       Spec with the event loop running every ready callback  *)
(*                  and every identity and search call settling            *)
(***************************************************************************)
EXTENDS Integers, Sequences, FiniteSets, TLC

\* ------------------------------------------------------------------ bounds
NumRequests == 1
MaxResults == 2
\* The longest run of "x" appended to a text given to generateMockAnswer.
MaxFill == 2
\* The most rows the queries table holds when clients write to it.
MaxRows == 2

Requests == 1..NumRequests

\* ------------------------------------------------------- program constants
MaxQueryLen == 1000
BearerPrefixLen == 7

\* ------------------------------------------------------------------ strings
\* A string is a sequence of one-character strings.
BearerPrefix == <<"B", "e", "a", "r", "e", "r", " ">>

StartsWith(s, p) == Len(s) >= Len(p) /\ SubSeq(s, 1, Len(p)) = p

\* String.prototype.substring(n): the characters from index n (0-based) on.
Substring(s, n) == IF n >= Len(s) THEN <<>> ELSE SubSeq(s, n + 1, Len(s))

RECURSIVE CountChar(_, _)
CountChar(s, c) ==
    IF s = <<>> THEN 0
    ELSE (IF Head(s) = c THEN 1 ELSE 0) + CountChar(Tail(s), c)

\* s.split(c).length: one more than the number of separators.
SplitLength(s, c) == CountChar(s, c) + 1

\* A query text of up to a thousand characters is kept in a compact form:
\* `lead` spaces, then the characters of `text`, then `fill` copies of "x",
\* then `trail` spaces.  `text` neither starts nor ends with a space.
Str(lead, text, fill, trail) ==
    [lead |-> lead, text |-> text, fill |-> fill, trail |-> trail]

EmptyStr == Str(0, <<>>, 0, 0)

\* String.prototype.length
Length(s) == s.lead + Len(s.text) + s.fill + s.trail

\* String.prototype.trim(): drops the spaces at both ends.
Trim(s) ==
    IF Len(s.text) + s.fill = 0 THEN EmptyStr
    ELSE Str(0, s.text, s.fill, 0)


\* ------------------------------------------------------- request bodies
\* req.body as the body parser leaves it: undefined (no body was parsed), a
\* JSON array, or a JSON object whose `query` is absent, a number or a string.
UndefinedBody == [kind |-> "undefined", qtype |-> "absent", query |-> EmptyStr]
ArrayBody == [kind |-> "array", qtype |-> "absent", query |-> EmptyStr]
EmptyObject == [kind |-> "object", qtype |-> "absent", query |-> EmptyStr]
NumberQuery == [kind |-> "object", qtype |-> "number", query |-> EmptyStr]
StringQuery(s) == [kind |-> "object", qtype |-> "string", query |-> s]

\* ------------------------------------------------------- askJijiSchema
Issue(path, code, message) == [path |-> path, code |-> code, message |-> message]

\* A variant of StringIssues with trim() chained first, so that both length
\* checks see the trimmed text.
StringIssuesTrimFirst(s) ==
    (IF Length(Trim(s)) < 1
        THEN <<Issue(<<"query">>, "too_small", "Query cannot be empty")>>
        ELSE <<>>)
    \o (IF Length(Trim(s)) > MaxQueryLen
        THEN <<Issue(<<"query">>, "too_big", "Query cannot exceed 1000 characters")>>
        ELSE <<>>)

\* The checks of the string schema, in the order they are chained:
\* min(1), max(1000), trim(), refine(val.length > 0).  The two length checks
\* see the text as sent; the refinement sees it trimmed.
StringIssues(s) ==
    (IF Length(s) < 1
        THEN <<Issue(<<"query">>, "too_small", "Query cannot be empty")>>
        ELSE <<>>)
    \o (IF Length(s) > MaxQueryLen
        THEN <<Issue(<<"query">>, "too_big", "Query cannot exceed 1000 characters")>>
        ELSE <<>>)
    \o (IF Length(Trim(s)) > 0
        THEN <<>>
        ELSE <<Issue(<<"query">>, "custom", "Query cannot be only whitespace")>>)

\* z.object({query: ...}): the issues schema.parse(body) throws as a ZodError;
\* none means the parse succeeds.
askJijiSchema(body) ==
    IF body.kind # "object"
        THEN <<Issue(<<>>, "invalid_type", "Invalid input: expected object")>>
    ELSE IF body.qtype # "string"
        THEN <<Issue(<<"query">>, "invalid_type", "Query must be a string")>>
    ELSE StringIssues(body.query)

\* The value schema.parse returns on success: the query trimmed.
ParsedBody(body) == StringQuery(Trim(body.query))

\* A variant of FieldOf that names the body whatever the issue's path.
FieldOfBodyOnly(issue) == "body"

\* issue.path.join(".") || "body"
FieldOf(issue) == IF issue.path = <<>> THEN "body" ELSE issue.path[1]

\* error.issues.map(...) of validateBody
Details(issues) ==
    [i \in 1..Len(issues) |->
        [field |-> FieldOf(issues[i]), message |-> issues[i].message,
         code |-> issues[i].code]]


\* ------------------------------------------------------------ inputs
\* The Authorization headers a request is sent with: hasHeader FALSE is a
\* request without the header.
NoHeader == [has |-> FALSE, value |-> <<>>]
Header(v) == [has |-> TRUE, value |-> v]

Headers ==
    { NoHeader,
      Header(BearerPrefix \o <<"a", ".", "b", ".", "c">>),
      Header(BearerPrefix \o <<"a", "b">>),
      Header(BearerPrefix \o <<"a", ".", "b", ".", "c", ".", "d">>),
      Header(<<"B", "a", "s", "i", "c", " ", "a", ".", "b", ".", "c">>),
      Header(<<"b", "e", "a", "r", "e", "r", " ", "a", ".", "b", ".", "c">>) }

QueryTexts ==
    { EmptyStr,
      Str(2, <<>>, 0, 0),
      Str(1, <<"R", "A", "G">>, 0, 1),
      Str(0, <<"q">>, MaxQueryLen - 1, 0),
      Str(0, <<"q">>, MaxQueryLen, 0),
      Str(1, <<"q">>, MaxQueryLen - 1, 0) }

Bodies ==
    { UndefinedBody, ArrayBody, EmptyObject, NumberQuery }
    \cup { StringQuery(s) : s \in QueryTexts }

Routes ==
    { [method |-> "GET", path |-> "/health"],
      [method |-> "POST", path |-> "/ask-jiji"],
      [method |-> "GET", path |-> "/ask-jiji"],
      [method |-> "POST", path |-> "/other"],
      [method |-> "OPTIONS", path |-> "/ask-jiji"] }

\* An optional field of a record of the identity service: <<>> is absent.
Absent == <<>>
Some(v) == <<v>>
\* JavaScript's  x || d  on an optional string.
OrElse(x, d) == IF x = Absent \/ x = Some("") THEN d ELSE x[1]

\* What supabase.auth.getUser(token) can settle with: an error, no user, a
\* thrown exception, or a user.
NoIdentity(kind) == [kind |-> kind, id |-> "", email |-> Absent, role |-> Absent]
Identity(id, email, role) == [kind |-> "user", id |-> id, email |-> email, role |-> role]

GetUserOutcomes ==
    { NoIdentity("error"), NoIdentity("nouser"), NoIdentity("throw"),
      Identity("u1", Some("a@x.io"), Some("admin")),
      Identity("u2", Absent, Absent),
      Identity("u3", Some(""), Some("")) }

\* The identity service verifies a token only if it has the three segments
\* of a JWT; for any other token it answers with an error, or throws.
GetUserSettlements(token) ==
    IF SplitLength(token, ".") = 3 THEN GetUserOutcomes
    ELSE { NoIdentity("error"), NoIdentity("throw") }

\* ------------------------------------------------------------ state
VARIABLES
    env,            \* process.env: which keys are set, and NODE_ENV
    supabase,       \* the anonymous client handle: "client" or "null"
    supabaseAdmin,  \* the privileged client handle: "client" or "null"
    pc,             \* per request: where it is in the pipeline
    req,            \* per request: route, headers.authorization, body, user,
                    \* and `sent`, the body as the client sent it
    trace,          \* per request: the handlers invoked so far, in order
    responses,      \* per request: the responses sent so far, in order
    answer,         \* per request: handleAskJiji's local `answer`
    resources,      \* per request: handleAskJiji's local `resources`
    ops,            \* per request: the calls made to the hosted services
    logState,       \* per request: the state of the saveQuery promise
    logRow,         \* per request: the row saveQuery sent to be inserted
    identity,       \* per request: what the identity service answered
    nexts,          \* per request: the handlers that called next(), in order
    thrown,         \* per request: the error passed to next(err), if any
    searchState,    \* per request: how the resources query settled
    queries,        \* the rows of the queries table
    server,         \* the listener: "listening", "closing" or "closed"
    proc,           \* the process: "running" or "exited"
    signal,         \* the first termination signal received, or "none"
    authUsers,      \* the rows of auth.users
    profiles,       \* the rows of the profiles table
    usersReadable,  \* whether a client role may read auth.users
    statement       \* the last statement a database client ran, and the
                    \* rows it was given or allowed to write

\* The process's lifecycle, and the store apart from the queries table.
lifecycle == <<server, proc, signal>>
store == <<authUsers, profiles, usersReadable, statement>>

vars == <<env, supabase, supabaseAdmin, pc, req, trace, responses, answer,
          resources, ops, logState, logRow, identity, nexts, thrown,
          searchState, queries, lifecycle, store>>

\* config/supabase.ts
isSupabaseConfigured == env.url /\ env.anonKey
isSupabaseAdminConfigured == env.url /\ env.serviceRoleKey

NoUser == [set |-> FALSE, id |-> "", email |-> "", role |-> ""]
User(id, email, role) == [set |-> TRUE, id |-> id, email |-> email, role |-> role]
MockUser == User("mock-user-id", "mock@example.com", "authenticated")

NoRoute == [method |-> "", path |-> ""]
NoRow == [user_id |-> "", query_text |-> EmptyStr, answer_text |-> "",
          resources_returned |-> <<>>]

\* An error passed to next(err): its message, whether it is an AppError, and
\* the status it carries (an AppError's statusCode, the status an error of the
\* framework's middleware carries, or none).
Error(message, appError, statusCode) ==
    [message |-> message, appError |-> appError, statusCode |-> statusCode]
NoError == Error("", FALSE, 0)

\* A client of the database: its role, and auth.uid() ("null" without a user).
Caller(role, uid) == [role |-> role, uid |-> uid]
NoStatement == [caller |-> Caller("none", "null"), op |-> "none",
                table |-> "none", rows |-> {}, error |-> FALSE]

\* The service after start-up: the clients exist or not, as the keys say; no
\* request has arrived; the listener is open.
InitService ==
    /\ env \in [url : BOOLEAN, anonKey : BOOLEAN, serviceRoleKey : BOOLEAN,
                nodeEnv : {"production", "development"}]
    /\ supabase = IF env.url /\ env.anonKey THEN "client" ELSE "null"
    /\ supabaseAdmin = IF env.url /\ env.serviceRoleKey THEN "client" ELSE "null"
    /\ pc = [r \in Requests |-> "idle"]
    /\ req = [r \in Requests |->
                [route |-> NoRoute, header |-> NoHeader, body |-> UndefinedBody,
                 sent |-> UndefinedBody, user |-> NoUser]]
    /\ trace = [r \in Requests |-> <<>>]
    /\ responses = [r \in Requests |-> <<>>]
    /\ answer = [r \in Requests |-> ""]
    /\ resources = [r \in Requests |-> <<>>]
    /\ ops = [r \in Requests |-> <<>>]
    /\ logState = [r \in Requests |-> "none"]
    /\ logRow = [r \in Requests |-> NoRow]
    /\ identity = [r \in Requests |-> NoIdentity("unasked")]
    /\ nexts = [r \in Requests |-> <<>>]
    /\ thrown = [r \in Requests |-> NoError]
    /\ searchState = [r \in Requests |-> "none"]
    /\ server = "listening"
    /\ proc = "running"
    /\ signal = "none"

\* The store with no identity, no profile and no logged query.
InitStoreEmpty ==
    /\ queries = {}
    /\ authUsers = {}
    /\ profiles = {}
    /\ usersReadable = FALSE
    /\ statement = NoStatement

\* The store the service runs against: one identity has signed up, and the
\* trigger on auth.users has made its profile; no query is logged yet.
InitStoreSeeded ==
    /\ queries = {}
    /\ authUsers = {[id |-> "u1", email |-> "a@x.io"]}
    /\ profiles = {[id |-> "u1", email |-> "a@x.io"]}
    /\ usersReadable = FALSE
    /\ statement = NoStatement

Init == InitService /\ InitStoreSeeded

\* ------------------------------------------------------------ responses
NoData == [kind |-> "none"]
Json(status, success, error, details, data) ==
    [status |-> status, success |-> success, error |-> error,
     details |-> details, data |-> data]

\* res.status(s).json(b), as a change of `responses`
Send(r, response) == responses' = [responses EXCEPT ![r] = Append(@, response)]

Invoke(r, handler) == trace' = [trace EXCEPT ![r] = Append(@, handler)]

\* A variant of EventLoopFree for a handler that yields between its call of
\* saveQuery and res.json: other callbacks run in between.
EventLoopFreeMidBlock == proc = "running"

\* The event loop is free to run a callback: the process is alive and no
\* handler is in the middle of a synchronous block.
EventLoopFree == proc = "running" /\ \A r \in Requests : pc[r] # "respond"


ErrorText(t) == [text |-> t, parts |-> <<>>]

\* ------------------------------------------------- terminal handlers
\* An error passed to next(err): only an AppError carries a status the
\* terminal handler uses.
ParseError == Error("Unexpected token in JSON", FALSE, 400)

\* A variant of StatusOf that uses whatever status the error carries.
StatusOfCarried(err) == IF err.statusCode # 0 THEN err.statusCode ELSE 500

\* errorHandler
StatusOf(err) == IF err.appError THEN err.statusCode ELSE 500

\* A variant of errorHandler that returns the error's message in every mode.
errorHandlerLeaks(err) ==
    Json(StatusOf(err), FALSE, ErrorText(err.message), <<>>, NoData)

errorHandler(err) ==
    Json(StatusOf(err), FALSE,
         ErrorText(IF env.nodeEnv = "production" /\ StatusOf(err) = 500
                       THEN "Internal server error"
                       ELSE err.message),
         <<>>, NoData)

\* notFoundHandler: `Route ${req.method} ${req.path} not found`
NotFoundResponse(route) ==
    Json(404, FALSE,
         [text |-> "Route not found", parts |-> <<route.method, route.path>>],
         <<>>, NoData)

\* ------------------------------------------------------------ server.ts
\* A request arrives at the listener, which accepts its connection.
Arrive(r, route) ==
    /\ EventLoopFree
    /\ server = "listening"
    /\ pc[r] = "idle"
    /\ req' = [req EXCEPT ![r].route = route]
    /\ pc' = [pc EXCEPT ![r] = "json"]
    /\ UNCHANGED <<env, supabase, supabaseAdmin, lifecycle, store, thrown, searchState, identity, nexts, trace, responses, answer,
                   resources, ops, logState, logRow, queries>>

\* app.use(cors()): a request of method OPTIONS is a preflight, which the
\* middleware answers itself with 204 and no body; next() is not called.
\* Every other request is passed on with the CORS headers set.
CorsPreflight(r) ==
    /\ EventLoopFree
    /\ pc[r] = "json"
    /\ req[r].route.method = "OPTIONS"
    /\ Invoke(r, "cors")
    /\ Send(r, Json(204, FALSE, ErrorText(""), <<>>, NoData))
    /\ pc' = [pc EXCEPT ![r] = "done"]
    /\ UNCHANGED <<env, supabase, supabaseAdmin, lifecycle, store, thrown,
                   searchState, identity, nexts, req, answer, resources, ops,
                   logState, logRow, queries>>

\* app.use(express.json()) on a body that parses: req.body is set.
JsonParser(r, body) ==
    /\ EventLoopFree
    /\ pc[r] = "json"
    /\ req[r].route.method # "OPTIONS"
    /\ req' = [req EXCEPT ![r].body = body, ![r].sent = body]
    /\ Invoke(r, "express.json")
    /\ pc' = [pc EXCEPT ![r] = "route"]
    /\ UNCHANGED <<env, supabase, supabaseAdmin, lifecycle, store, thrown, searchState, identity, nexts, responses, answer, resources,
                   ops, logState, logRow, queries>>

\* app.use(express.json()) on a body that is not JSON: the parser passes its
\* error on, and the error reaches app.use(errorHandler).
JsonParserFails(r) ==
    /\ EventLoopFree
    /\ pc[r] = "json"
    /\ req[r].route.method # "OPTIONS"
    /\ trace' = [trace EXCEPT ![r] = @ \o <<"express.json", "errorHandler">>]
    /\ Send(r, errorHandler(ParseError))
    /\ thrown' = [thrown EXCEPT ![r] = ParseError]
    /\ pc' = [pc EXCEPT ![r] = "done"]
    /\ UNCHANGED <<env, supabase, supabaseAdmin, lifecycle, store, searchState, identity, nexts, req, answer, resources, ops,
                   logState, logRow, queries>>

\* app.get("/health", ...)
Health(r) ==
    /\ EventLoopFree
    /\ pc[r] = "route"
    /\ req[r].route = [method |-> "GET", path |-> "/health"]
    /\ Invoke(r, "health")
    /\ Send(r, Json(200, TRUE, ErrorText(""), <<>>,
                    [kind |-> "health", status |-> "healthy",
                     environment |-> env.nodeEnv]))
    /\ pc' = [pc EXCEPT ![r] = "done"]
    /\ UNCHANGED <<env, supabase, supabaseAdmin, lifecycle, store, thrown, searchState, identity, nexts, req, answer, resources, ops,
                   logState, logRow, queries>>

\* A variant of RouteAskJiji whose chain lacks authenticate: the request goes
\* from the router straight to validateBody.
RouteAskJijiSkipsAuthenticate(r) ==
    /\ EventLoopFree
    /\ pc[r] = "route"
    /\ req[r].route = [method |-> "POST", path |-> "/ask-jiji"]
    /\ pc' = [pc EXCEPT ![r] = "validateBody"]
    /\ UNCHANGED <<env, supabase, supabaseAdmin, lifecycle, store, thrown,
                   searchState, identity, nexts, req, trace, responses, answer,
                   resources, ops, logState, logRow, queries>>

\* app.use("/ask-jiji", askJijiRoutes) with router.post("/", ...)
RouteAskJiji(r) ==
    /\ EventLoopFree
    /\ pc[r] = "route"
    /\ req[r].route = [method |-> "POST", path |-> "/ask-jiji"]
    /\ pc' = [pc EXCEPT ![r] = "authenticate"]
    /\ UNCHANGED <<env, supabase, supabaseAdmin, lifecycle, store, thrown, searchState, identity, nexts, req, trace, responses, answer,
                   resources, ops, logState, logRow, queries>>

\* app.use(notFoundHandler): every request no route matched
notFoundHandler(r) ==
    /\ EventLoopFree
    /\ pc[r] = "route"
    /\ req[r].route # [method |-> "GET", path |-> "/health"]
    /\ req[r].route # [method |-> "POST", path |-> "/ask-jiji"]
    /\ Invoke(r, "notFoundHandler")
    /\ Send(r, NotFoundResponse(req[r].route))
    /\ pc' = [pc EXCEPT ![r] = "done"]
    /\ UNCHANGED <<env, supabase, supabaseAdmin, lifecycle, store, thrown, searchState, identity, nexts, req, answer, resources, ops,
                   logState, logRow, queries>>


\* ------------------------------------------------ auth.middleware.ts
\* !authHeader?.startsWith("Bearer ")
HasBearer(h) == h.has /\ StartsWith(h.value, BearerPrefix)

\* authHeader.substring(7)
TokenOf(h) == Substring(h.value, BearerPrefixLen)

\* A variant of AuthBranch without the check of isSupabaseConfigured in the
\* no-header case: the mock user is attached whenever the header is missing.
AuthBranchMockWithoutHeader(h) ==
    IF ~HasBearer(h) THEN "mock"
    ELSE IF ~(isSupabaseConfigured /\ supabase # "null")
        THEN (IF SplitLength(TokenOf(h), ".") # 3 THEN "format" ELSE "mock")
    ELSE "verify"

\* A variant of AuthBranch without the mock fallback of the no-header case.
AuthBranchRequiresHeader(h) ==
    IF ~HasBearer(h) THEN "required"
    ELSE IF ~(isSupabaseConfigured /\ supabase # "null")
        THEN (IF SplitLength(TokenOf(h), ".") # 3 THEN "format" ELSE "mock")
    ELSE "verify"

\* A variant of AuthBranch whose structural check accepts three segments or
\* more (split(".").length < 3 is the failure).
AuthBranchAtLeastThreeSegments(h) ==
    IF ~HasBearer(h)
        THEN (IF ~isSupabaseConfigured THEN "mock" ELSE "required")
    ELSE IF ~(isSupabaseConfigured /\ supabase # "null")
        THEN (IF SplitLength(TokenOf(h), ".") < 3 THEN "format" ELSE "mock")
    ELSE "verify"

\* The branch authenticate takes for a header, before any call to the
\* identity service:
\*   "mock"     req.user = mock user; next()
\*   "required" 401 Authorization header required
\*   "format"   401 Invalid token format
\*   "verify"   await supabase.auth.getUser(token)
AuthBranch(h) ==
    IF ~HasBearer(h)
        THEN (IF ~isSupabaseConfigured THEN "mock" ELSE "required")
    ELSE IF ~(isSupabaseConfigured /\ supabase # "null")
        THEN (IF SplitLength(TokenOf(h), ".") # 3 THEN "format" ELSE "mock")
    ELSE "verify"

Unauthorized(text) == Json(401, FALSE, ErrorText(text), <<>>, NoData)

\* A variant of VerifiedUser that copies the role as it is.
VerifiedUserNoRoleDefault(u) ==
    User(u.id, OrElse(u.email, ""), OrElse(u.role, ""))

\* The identity attached after a successful verification.
VerifiedUser(u) ==
    User(u.id, OrElse(u.email, ""), OrElse(u.role, "authenticated"))

\* authenticate: from its first line to its first await or return.
authenticate(r, h) ==
    /\ EventLoopFree
    /\ pc[r] = "authenticate"
    /\ Invoke(r, "authenticate")
    /\ LET branch == AuthBranch(h) IN
        /\ req' = [req EXCEPT ![r].header = h,
                              ![r].user = IF branch = "mock" THEN MockUser ELSE @]
        /\ pc' = [pc EXCEPT ![r] =
                    CASE branch = "mock" -> "validateBody"
                      [] branch = "verify" -> "getUser"
                      [] OTHER -> "done"]
        /\ responses' = [responses EXCEPT ![r] =
                    CASE branch = "required" ->
                            Append(@, Unauthorized("Authorization header required. Use: Bearer <token>"))
                      [] branch = "format" ->
                            Append(@, Unauthorized("Invalid token format"))
                      [] OTHER -> @]
        /\ ops' = [ops EXCEPT ![r] =
                    IF branch = "verify" THEN Append(@, "auth.getUser") ELSE @]
        /\ nexts' = [nexts EXCEPT ![r] =
                    IF branch = "mock" THEN Append(@, "authenticate") ELSE @]
    /\ UNCHANGED <<env, supabase, supabaseAdmin, lifecycle, store, thrown, searchState, identity, answer, resources,
                   logState, logRow, queries>>

\* A variant of VerifyBranch whose catch block lets the request through.
VerifyBranchSwallows(o) ==
    IF o.kind = "error" \/ o.kind = "nouser" THEN "rejected" ELSE "next"

\* A variant of VerifyBranch for an authenticate without try/catch: a thrown
\* call ends the middleware with no response and no next().
VerifyBranchUncaught(o) ==
    IF o.kind = "throw" THEN "uncaught"
    ELSE IF o.kind = "error" \/ o.kind = "nouser" THEN "rejected"
    ELSE "next"

\* What authenticate does when supabase.auth.getUser settles with `o`:
\*   "unavailable" the call threw: the catch block answers 500
\*   "rejected"    error || !user: 401
\*   "next"        the user is attached and next() is called
VerifyBranch(o) ==
    IF o.kind = "throw" THEN "unavailable"
    ELSE IF o.kind = "error" \/ o.kind = "nouser" THEN "rejected"
    ELSE "next"

\* A variant of GetUserSettles whose catch block discards the anonymous
\* client after a thrown call, for the requests to come.
GetUserSettlesDropsClient(r, o) ==
    /\ EventLoopFree
    /\ pc[r] = "getUser"
    /\ LET branch == VerifyBranch(o) IN
        /\ req' = [req EXCEPT ![r].user =
                    IF branch = "next" THEN VerifiedUser(o) ELSE @]
        /\ pc' = [pc EXCEPT ![r] =
                    IF branch = "next" THEN "validateBody" ELSE "done"]
        /\ responses' = [responses EXCEPT ![r] =
                    CASE branch = "unavailable" ->
                            Append(@, Json(500, FALSE,
                                ErrorText("Authentication service unavailable"),
                                <<>>, NoData))
                      [] branch = "rejected" ->
                            Append(@, Unauthorized("Invalid or expired token"))
                      [] OTHER -> @]
        /\ nexts' = [nexts EXCEPT ![r] =
                    IF branch = "next" THEN Append(@, "authenticate") ELSE @]
        /\ supabase' = IF branch = "unavailable" THEN "null" ELSE supabase
    /\ identity' = [identity EXCEPT ![r] = o]
    /\ UNCHANGED <<env, supabaseAdmin, lifecycle, store, thrown, searchState,
                   trace, answer, resources, ops, logState, logRow, queries>>

\* authenticate: from the settling of getUser to its end.
GetUserSettles(r, o) ==
    /\ EventLoopFree
    /\ pc[r] = "getUser"
    /\ LET branch == VerifyBranch(o) IN
        /\ req' = [req EXCEPT ![r].user =
                    IF branch = "next" THEN VerifiedUser(o) ELSE @]
        /\ pc' = [pc EXCEPT ![r] =
                    IF branch = "next" THEN "validateBody" ELSE "done"]
        /\ responses' = [responses EXCEPT ![r] =
                    CASE branch = "unavailable" ->
                            Append(@, Json(500, FALSE,
                                ErrorText("Authentication service unavailable"),
                                <<>>, NoData))
                      [] branch = "rejected" ->
                            Append(@, Unauthorized("Invalid or expired token"))
                      [] OTHER -> @]
        /\ nexts' = [nexts EXCEPT ![r] =
                    IF branch = "next" THEN Append(@, "authenticate") ELSE @]
    /\ identity' = [identity EXCEPT ![r] = o]
    /\ UNCHANGED <<env, supabase, supabaseAdmin, lifecycle, store, thrown, searchState, trace, answer, resources, ops,
                   logState, logRow, queries>>

\* ------------------------------------------- validation.middleware.ts
\* `Validation failed: ${details.map((d) => `${d.field}: ${d.message}`).join(", ")}`
Summary(details) ==
    [text |-> "Validation failed",
     parts |-> [i \in 1..Len(details) |-> <<details[i].field, details[i].message>>]]

\* A variant of validateBody without the `return` after res.status(400).json:
\* on a schema failure it responds and then calls next() too.
validateBodyRespondsAndProceeds(r) ==
    /\ EventLoopFree
    /\ pc[r] = "validateBody"
    /\ Invoke(r, "validateBody")
    /\ LET issues == askJijiSchema(req[r].body) IN
        /\ req' = [req EXCEPT ![r].body = IF issues = <<>> THEN ParsedBody(@) ELSE @]
        /\ responses' = [responses EXCEPT ![r] =
                IF issues = <<>> THEN @
                ELSE Append(@, Json(400, FALSE, Summary(Details(issues)),
                                    Details(issues), NoData))]
    /\ nexts' = [nexts EXCEPT ![r] = Append(@, "validateBody")]
    /\ pc' = [pc EXCEPT ![r] = "handleAskJiji"]
    /\ UNCHANGED <<env, supabase, supabaseAdmin, lifecycle, store, thrown,
                   searchState, identity, answer, resources, ops, logState,
                   logRow, queries>>

\* validateBody(askJijiSchema)
validateBody(r) ==
    /\ EventLoopFree
    /\ pc[r] = "validateBody"
    /\ Invoke(r, "validateBody")
    /\ LET issues == askJijiSchema(req[r].body) IN
        IF issues = <<>>
            THEN /\ req' = [req EXCEPT ![r].body = ParsedBody(@)]
                 /\ nexts' = [nexts EXCEPT ![r] = Append(@, "validateBody")]
                 /\ pc' = [pc EXCEPT ![r] = "handleAskJiji"]
                 /\ UNCHANGED responses
            ELSE /\ Send(r, Json(400, FALSE, Summary(Details(issues)),
                                 Details(issues), NoData))
                 /\ pc' = [pc EXCEPT ![r] = "done"]
                 /\ UNCHANGED <<req, nexts>>
    /\ UNCHANGED <<env, supabase, supabaseAdmin, lifecycle, store, thrown, searchState, identity, answer, resources, ops,
                   logState, logRow, queries>>


\* ------------------------------------------------- resource-service.ts
Upper == <<"A", "B", "C", "D", "E", "F", "G", "H", "I", "J", "K", "L", "M",
           "N", "O", "P", "Q", "R", "S", "T", "U", "V", "W", "X", "Y", "Z">>
Lower == <<"a", "b", "c", "d", "e", "f", "g", "h", "i", "j", "k", "l", "m",
           "n", "o", "p", "q", "r", "s", "t", "u", "v", "w", "x", "y", "z">>

LowerChar(c) ==
    IF \E i \in 1..Len(Upper) : Upper[i] = c
        THEN Lower[CHOOSE i \in 1..Len(Upper) : Upper[i] = c]
        ELSE c

\* The i-th character of a query text.
CharAt(s, i) ==
    IF i <= s.lead THEN " "
    ELSE IF i <= s.lead + Len(s.text) THEN s.text[i - s.lead]
    ELSE IF i <= s.lead + Len(s.text) + s.fill THEN "x"
    ELSE " "

\* String.prototype.toLowerCase(): character by character; " " and "x" are
\* their own lower case.
ToLowerCase(s) ==
    Str(s.lead, [i \in 1..Len(s.text) |-> LowerChar(s.text[i])], s.fill, s.trail)

\* String.prototype.includes(k): some window of the text equals k.  The
\* windows that lie wholly inside the run of "x" are all alike, so one of
\* them (the first) stands for all.
WindowStarts(s, m) ==
    LET fillStart == s.lead + Len(s.text) + 1
        fillEnd == s.lead + Len(s.text) + s.fill
        last == Length(s) - m + 1
    IN  (1..(IF fillStart < last THEN fillStart ELSE last))
        \cup ((IF fillEnd - m + 2 > 1 THEN fillEnd - m + 2 ELSE 1)..last)

Includes(s, k) ==
    \E i \in WindowStarts(s, Len(k)) :
        \A j \in 1..Len(k) : CharAt(s, i + j - 1) = k[j]

RagAnswer == "Retrieval-Augmented Generation (RAG) combines search with LLMs"
NeuralAnswer == "Neural networks are layers of connected units"
FallbackAnswer == "Here is what I found about your question"

\* A variant of generateMockAnswer that tests the keywords in another order.
generateMockAnswerNeuralFirst(query) ==
    LET q == ToLowerCase(query) IN
    IF \/ Includes(q, <<"n", "e", "u", "r", "a", "l", " ",
                        "n", "e", "t", "w", "o", "r", "k">>)
       \/ Includes(q, <<"d", "e", "e", "p", " ",
                        "l", "e", "a", "r", "n", "i", "n", "g">>)
        THEN NeuralAnswer
    ELSE IF Includes(q, <<"r", "a", "g">>) THEN RagAnswer
    ELSE FallbackAnswer

\* generateMockAnswer: the first keyword the lower-cased query contains
\* decides the canned answer.
generateMockAnswer(query) ==
    LET q == ToLowerCase(query) IN
    IF Includes(q, <<"r", "a", "g">>) THEN RagAnswer
    ELSE IF \/ Includes(q, <<"n", "e", "u", "r", "a", "l", " ",
                             "n", "e", "t", "w", "o", "r", "k">>)
            \/ Includes(q, <<"d", "e", "e", "p", " ",
                             "l", "e", "a", "r", "n", "i", "n", "g">>)
        THEN NeuralAnswer
    ELSE FallbackAnswer

\* A row of the resources table in its public shape {id, title, type, url}.
Resource(i) ==
    [id |-> i, title |-> "resource", type |-> IF i % 2 = 1 THEN "ppt" ELSE "video",
     url |-> "https://storage/learning-materials"]

\* How the resources query can settle: the database answers with an error,
\* the call throws, or it answers with no row or with MaxResults rows.
SearchOutcomes ==
    { [error |-> TRUE, threw |-> FALSE, rows |-> <<>>],
      [error |-> TRUE, threw |-> TRUE, rows |-> <<>>] }
    \cup { [error |-> FALSE, threw |-> FALSE, rows |-> [i \in 1..n |-> Resource(i)]] :
                n \in {0, MaxResults} }

\* searchResources: whether it queries the database at all.
SearchQueriesDatabase == isSupabaseConfigured /\ supabase # "null"

\* searchResources: the list it returns once the query has settled with `o`;
\* an error becomes the empty list.
SearchResult(o) == IF o.error THEN <<>> ELSE o.rows


\* What the await of searchResources can resume with: without a configured
\* client nothing is queried and the list is empty.
SearchSettlements ==
    IF SearchQueriesDatabase THEN SearchOutcomes
    ELSE { [error |-> FALSE, threw |-> FALSE, rows |-> <<>>] }

\* How the search of a request went, for the record.
SearchStateOf(o) ==
    IF ~SearchQueriesDatabase THEN "unconfigured"
    ELSE IF o.threw THEN "threw"
    ELSE IF o.error THEN "error"
    ELSE "rows"

\* ------------------------------------- ask-jiji.controller.ts, query-service.ts
\* const userId = req.user?.id || null
UserId(user) == IF user.set /\ user.id # "" THEN user.id ELSE "null"

\* A variant of ResourceIds that lists the ids last to first.
ResourceIdsReversed(rs) == [i \in 1..Len(rs) |-> rs[Len(rs) + 1 - i].id]

\* resources.map((r) => r.id)
ResourceIds(rs) == [i \in 1..Len(rs) |-> rs[i].id]

\* A variant of SaveQueryInserts that tests the anonymous client instead of
\* the privileged one.
SaveQueryInsertsWithAnonClient == isSupabaseConfigured /\ supabase # "null"

\* saveQuery: whether it sends an insert; otherwise it returns null at once.
SaveQueryInserts == isSupabaseAdminConfigured /\ supabaseAdmin # "null"

\* The row saveQuery inserts.
QueryRow(userId, queryText, answerText, resourceIds) ==
    [user_id |-> userId, query_text |-> queryText, answer_text |-> answerText,
     resources_returned |-> resourceIds]

\* The 200 response of handleAskJiji.
AskJijiResponse(a, rs) ==
    Json(200, TRUE, ErrorText(""), <<>>,
         [kind |-> "ask", answer |-> a, resources |-> rs])

\* handleAskJiji: from its first line to `await searchResources(query)`.
handleAskJiji(r) ==
    /\ EventLoopFree
    /\ pc[r] = "handleAskJiji"
    /\ Invoke(r, "handleAskJiji")
    /\ answer' = [answer EXCEPT ![r] = generateMockAnswer(req[r].body.query)]
    /\ ops' = [ops EXCEPT ![r] =
                IF SearchQueriesDatabase THEN Append(@, "resources.select") ELSE @]
    /\ pc' = [pc EXCEPT ![r] = "search"]
    /\ UNCHANGED <<env, supabase, supabaseAdmin, lifecycle, store, thrown, searchState, identity, nexts, req, responses, resources,
                   logState, logRow, queries>>

\* A variant of SearchSettles in which a failed search rejects the promise
\* the handler awaits: its catch block passes the error to next(error), and
\* the terminal handler answers.
SearchSettlesRejecting(r, o) ==
    /\ EventLoopFree
    /\ pc[r] = "search"
    /\ o.error
    /\ searchState' = [searchState EXCEPT ![r] = SearchStateOf(o)]
    /\ thrown' = [thrown EXCEPT ![r] = Error("search failed", FALSE, 0)]
    /\ trace' = [trace EXCEPT ![r] = Append(@, "errorHandler")]
    /\ Send(r, errorHandler(Error("search failed", FALSE, 0)))
    /\ pc' = [pc EXCEPT ![r] = "done"]
    /\ UNCHANGED <<env, supabase, supabaseAdmin, lifecycle, store, identity,
                   nexts, req, answer, resources, ops, logState, logRow, queries>>

\* handleAskJiji: searchResources has settled; saveQuery is called and runs
\* to its own await (or returns null), and is not awaited.
SearchSettles(r, o) ==
    /\ EventLoopFree
    /\ pc[r] = "search"
    /\ resources' = [resources EXCEPT ![r] = SearchResult(o)]
    /\ searchState' = [searchState EXCEPT ![r] = SearchStateOf(o)]
    /\ IF SaveQueryInserts
        THEN /\ ops' = [ops EXCEPT ![r] = Append(@, "queries.insert")]
             /\ logState' = [logState EXCEPT ![r] = "pending"]
             /\ logRow' = [logRow EXCEPT ![r] =
                    QueryRow(UserId(req[r].user), req[r].body.query, answer[r],
                             ResourceIds(SearchResult(o)))]
        ELSE /\ logState' = [logState EXCEPT ![r] = "skipped"]
             /\ UNCHANGED <<ops, logRow>>
    /\ pc' = [pc EXCEPT ![r] = "respond"]
    /\ UNCHANGED <<env, supabase, supabaseAdmin, lifecycle, store, thrown, identity, nexts, req, trace, responses, answer,
                   queries>>

\* A variant of Respond in which the handler awaits saveQuery at this point:
\* it is suspended, and the response is not sent in this block.
RespondAwaitsSave(r) ==
    /\ pc[r] = "respond"
    /\ pc' = [pc EXCEPT ![r] = "awaitSave"]
    /\ UNCHANGED <<env, supabase, supabaseAdmin, lifecycle, store, thrown, searchState, identity, nexts, req, trace,
                   responses, answer, resources, ops, logState, logRow, queries>>

\* A variant of Respond that treats an empty result list as a failure.
RespondFailsOnEmpty(r) ==
    /\ pc[r] = "respond"
    /\ Send(r, IF resources[r] = <<>>
                 THEN Json(404, FALSE, ErrorText("No resources found"), <<>>, NoData)
                 ELSE AskJijiResponse(answer[r], resources[r]))
    /\ pc' = [pc EXCEPT ![r] = "done"]
    /\ UNCHANGED <<env, supabase, supabaseAdmin, lifecycle, store, thrown, searchState, identity, nexts, req, trace,
                   answer, resources, ops, logState, logRow, queries>>

\* handleAskJiji: res.status(200).json(response), in the same synchronous
\* block as the call of saveQuery.
Respond(r) ==
    /\ pc[r] = "respond"
    /\ Send(r, AskJijiResponse(answer[r], resources[r]))
    /\ pc' = [pc EXCEPT ![r] = "done"]
    /\ UNCHANGED <<env, supabase, supabaseAdmin, lifecycle, store, thrown, searchState, identity, nexts, req, trace, answer, resources,
                   ops, logState, logRow, queries>>

\* A variant of ReferencesProfile for a user_id column without the foreign
\* key: any value is stored.
ReferencesProfileUnchecked(owner) == TRUE

\* queries.user_id REFERENCES profiles(id)
ReferencesProfile(owner) == owner = "null" \/ \E p \in profiles : p.id = owner

\* How the insert of saveQuery can settle; it may also never settle.  The
\* privileged client bypasses the policies, not the constraints: the row is
\* stored only if its user_id is null or the id of a profile.
\*   "inserted" the row is stored and returned
\*   "dberror"  the database answers with an error: logged, null
\*   "threw"    the call throws: caught in saveQuery, logged, null
LogOutcomes == {"inserted", "dberror", "threw"}

\* A variant of LogSettles in which saveQuery has no try/catch and the
\* handler passes the rejection to next(err): the terminal handler answers.
LogSettlesPropagating(r, o) ==
    /\ EventLoopFree
    /\ logState[r] = "pending"
    /\ o = "inserted" => ReferencesProfile(logRow[r].user_id)
    /\ logState' = [logState EXCEPT ![r] = o]
    /\ queries' = IF o = "inserted"
                    THEN queries \cup {[id |-> r, row |-> logRow[r]]}
                    ELSE queries
    /\ IF o = "threw"
        THEN /\ Invoke(r, "errorHandler")
             /\ Send(r, errorHandler(Error("fetch failed", FALSE, 0)))
        ELSE UNCHANGED <<trace, responses>>
    /\ UNCHANGED <<env, supabase, supabaseAdmin, lifecycle, store, thrown, searchState, identity, nexts, pc, req,
                   answer, resources, ops, logRow>>

\* A variant of LogSettles that sends the insert again after a database error.
LogSettlesRetrying(r, o) ==
    /\ EventLoopFree
    /\ logState[r] = "pending"
    /\ o = "inserted" => ReferencesProfile(logRow[r].user_id)
    /\ logState' = [logState EXCEPT ![r] = IF o = "dberror" THEN "pending" ELSE o]
    /\ ops' = [ops EXCEPT ![r] =
                IF o = "dberror" /\ Len(@) < 4 THEN Append(@, "queries.insert") ELSE @]
    /\ queries' = IF o = "inserted"
                    THEN queries \cup {[id |-> r, row |-> logRow[r]]}
                    ELSE queries
    /\ UNCHANGED <<env, supabase, supabaseAdmin, lifecycle, store, thrown, searchState, identity, nexts, pc, req, trace,
                   responses, answer, resources, logRow>>

\* saveQuery: the awaited insert settles.  Every outcome ends inside
\* saveQuery; the promise the handler dropped resolves and its .catch
\* callback has nothing to do.
LogSettles(r, o) ==
    /\ EventLoopFree
    /\ logState[r] = "pending"
    /\ o = "inserted" => ReferencesProfile(logRow[r].user_id)
    /\ logState' = [logState EXCEPT ![r] = o]
    /\ queries' = IF o = "inserted"
                    THEN queries \cup {[id |-> r, row |-> logRow[r]]}
                    ELSE queries
    /\ UNCHANGED <<env, supabase, supabaseAdmin, lifecycle, store, thrown, searchState, identity, nexts, pc, req, trace, responses,
                   answer, resources, ops, logRow>>

\* ------------------------------------------------------------ specification
Next ==
    \E r \in Requests :
        \/ \E route \in Routes : Arrive(r, route)
        \/ CorsPreflight(r)
        \/ \E body \in Bodies : JsonParser(r, body)
        \/ JsonParserFails(r)
        \/ Health(r)
        \/ RouteAskJiji(r)
        \/ notFoundHandler(r)
        \/ \E h \in Headers : authenticate(r, h)
        \/ \E o \in GetUserSettlements(TokenOf(req[r].header)) : GetUserSettles(r, o)
        \/ validateBody(r)
        \/ handleAskJiji(r)
        \/ \E o \in SearchSettlements : SearchSettles(r, o)
        \/ Respond(r)
        \/ \E o \in LogOutcomes : LogSettles(r, o)

Spec == Init /\ [][Next]_vars

\* ------------------------------------------- scheduling
\* The steps of a request the event loop runs by itself once they are ready:
\* the middleware and handlers of the chain, and the continuations of the
\* awaited identity and search calls once these have settled.  The arrival
\* of a request and the settling of the log insert are not among them.
Progress(r) ==
    \/ CorsPreflight(r)
    \/ \E body \in Bodies : JsonParser(r, body)
    \/ JsonParserFails(r)
    \/ Health(r)
    \/ RouteAskJiji(r)
    \/ notFoundHandler(r)
    \/ \E h \in Headers : authenticate(r, h)
    \/ \E o \in GetUserSettlements(TokenOf(req[r].header)) : GetUserSettles(r, o)
    \/ validateBody(r)
    \/ handleAskJiji(r)
    \/ \E o \in SearchSettlements : SearchSettles(r, o)
    \/ Respond(r)

\* The service in production with the database URL and the privileged key
\* set, so that every processed request starts a log insert; the anonymous
\* key decides between verification and the mock identity.
InitLive ==
    /\ Init
    /\ env.url
    /\ env.serviceRoleKey
    /\ env.nodeEnv = "production"

\* The service when every ready callback is run and every identity and
\* search call settles; a log insert may stay pending for ever.
SpecLive == InitLive /\ [][Next]_vars /\ \A r \in Requests : WF_vars(Progress(r))

\* ------------------------------------------- the process's lifecycle
Signals == {"SIGTERM", "SIGINT"}

\* A connection is open while its request has not been answered.
InFlight(r) == pc[r] \notin {"idle", "done"}

\* A variant of Signal whose handler calls process.exit(0) right after
\* server.close(), without waiting for the callback.
SignalExitsAtOnce(sig) ==
    /\ EventLoopFree
    /\ signal' = (IF signal = "none" THEN sig ELSE signal)
    /\ server' = (IF server = "listening" THEN "closing" ELSE server)
    /\ proc' = "exited"
    /\ UNCHANGED <<env, supabase, supabaseAdmin, store, pc, req, trace,
                   responses, answer, resources, ops, logState, logRow,
                   identity, nexts, thrown, searchState, queries>>

\* process.on("SIGTERM" | "SIGINT"): server.close(callback).  The listener
\* stops accepting connections; the callback is kept for the 'close' event.
\* A further signal finds the listener closing and adds one more callback.
Signal(sig) ==
    /\ EventLoopFree
    /\ signal' = (IF signal = "none" THEN sig ELSE signal)
    /\ server' = (IF server = "listening" THEN "closing" ELSE server)
    /\ UNCHANGED <<env, supabase, supabaseAdmin, store, proc, pc, req, trace,
                   responses, answer, resources, ops, logState, logRow,
                   identity, nexts, thrown, searchState, queries>>

\* The 'close' event: the listener has stopped and the last connection has
\* ended.  The callback of server.close runs: process.exit(0).
ServerClosed ==
    /\ EventLoopFree
    /\ server = "closing"
    /\ \A r \in Requests : ~InFlight(r)
    /\ server' = "closed"
    /\ proc' = "exited"
    /\ UNCHANGED <<env, supabase, supabaseAdmin, store, signal, pc, req, trace,
                   responses, answer, resources, ops, logState, logRow,
                   identity, nexts, thrown, searchState, queries>>

\* The service with every key set, serving requests while signals arrive.
InitLifecycle ==
    /\ Init
    /\ env.url /\ env.anonKey /\ env.serviceRoleKey
    /\ env.nodeEnv = "production"

NextLifecycle ==
    \/ Next
    \/ \E sig \in Signals : Signal(sig)
    \/ ServerClosed

SpecLifecycle == InitLifecycle /\ [][NextLifecycle]_vars

\* ------------------------------------------- the store and its policies
UserIds == {"u1", "u2"}
Emails == {"a@x.io", "b@x.io"}

\* The clients the policies apply to: the anonymous role, whose auth.uid() is
\* null, and the authenticated role with the id of its token.
Callers ==
    {Caller("anon", "null")} \cup {Caller("authenticated", u) : u \in UserIds}

\* x IN (SELECT id FROM auth.users WHERE id = auth.uid()); a null x, or a
\* null auth.uid(), matches no row.
InAuthUsers(uid) == \E a \in authUsers : a.id = uid
OwnsByAuthUsers(c, x) == x # "null" /\ x = c.uid /\ InAuthUsers(c.uid)

\* The policies in force after the second migration.  The policies on
\* queries and profiles name no role, so they apply to every role.
QueriesSelectUsing(c, q) ==
    OwnsByAuthUsers(c, q.row.user_id) \/ q.row.user_id = "null"
QueriesInsertCheck(c, q) ==
    OwnsByAuthUsers(c, q.row.user_id) \/ q.row.user_id = "null"
QueriesDeleteUsing(c, q) == OwnsByAuthUsers(c, q.row.user_id)
ProfilesSelectUsing(c, p) == OwnsByAuthUsers(c, p.id)
ProfilesUpdateUsing(c, p) == OwnsByAuthUsers(c, p.id)
ProfilesInsertCheck(c, p) == OwnsByAuthUsers(c, p.id)
\* ON resources FOR SELECT TO authenticated USING (true)
ResourcesSelectUsing(c, x) == c.role = "authenticated"

\* The policies of these tables read auth.users, with the caller's rights:
\* a caller without the right to read it has every statement refused.
ReadsAuthUsers(table) == table \in {"queries", "profiles"}
PolicyFails(table) == ReadsAuthUsers(table) /\ ~usersReadable

Refused(c, op, table) ==
    [caller |-> c, op |-> op, table |-> table, rows |-> {}, error |-> TRUE]
Ran(c, op, table, rows) ==
    [caller |-> c, op |-> op, table |-> table, rows |-> rows, error |-> FALSE]

\* handle_new_user: INSERT INTO profiles ... ON CONFLICT (id) DO UPDATE SET email
HandleNewUser(ps, id, email) ==
    {p \in ps : p.id # id} \cup {[id |-> id, email |-> email]}

\* profiles.email is UNIQUE.
EmailFree(ps, id, email) == \A p \in ps : p.email = email => p.id = id

\* An identity is created in auth.users; the trigger on_auth_user_created
\* runs handle_new_user in the same transaction.
AuthUserCreated(u, email) ==
    /\ ~InAuthUsers(u)
    /\ EmailFree(profiles, u, email)
    /\ authUsers' = authUsers \cup {[id |-> u, email |-> email]}
    /\ profiles' = HandleNewUser(profiles, u, email)
    /\ UNCHANGED <<env, supabase, supabaseAdmin, lifecycle, usersReadable,
                   statement, pc, req, trace, responses, answer, resources,
                   ops, logState, logRow, identity, nexts, thrown,
                   searchState, queries>>

\* The email of an identity is changed in auth.users.  The only trigger on
\* auth.users, on_auth_user_created, is AFTER INSERT: an UPDATE runs no
\* function, and profiles is left as it is.  (Two identities never hold one
\* email.)
AuthUserUpdated(u, email) ==
    /\ \E a \in authUsers : a.id = u /\ a.email # email
    /\ \A a \in authUsers : a.email # email
    /\ authUsers' = {a \in authUsers : a.id # u} \cup {[id |-> u, email |-> email]}
    /\ UNCHANGED <<env, supabase, supabaseAdmin, lifecycle, usersReadable,
                   statement, profiles, pc, req, trace, responses, answer,
                   resources, ops, logState, logRow, identity, nexts, thrown,
                   searchState, queries>>

\* The rows of a table a SELECT of the caller returns.
Visible(c, table) ==
    CASE table = "queries" -> {q \in queries : QueriesSelectUsing(c, q)}
      [] table = "profiles" -> {p \in profiles : ProfilesSelectUsing(c, p)}
      [] table = "resources" ->
            {x \in {Resource(i) : i \in 1..MaxResults} : ResourcesSelectUsing(c, x)}

ClientSelect(c, table) ==
    /\ statement' = IF PolicyFails(table) THEN Refused(c, "select", table)
                     ELSE Ran(c, "select", table, Visible(c, table))
    /\ UNCHANGED <<env, supabase, supabaseAdmin, lifecycle, usersReadable,
                   authUsers, profiles, pc, req, trace, responses, answer,
                   resources, ops, logState, logRow, identity, nexts, thrown,
                   searchState, queries>>

\* The ids no row of the queries table uses (gen_random_uuid() never
\* repeats one).
FreeIds == {i \in 1..MaxRows : \A q \in queries : q.id # i}

\* A client inserts a queries row with the user_id it chooses.
ClientInsertQuery(c, owner) ==
    /\ FreeIds # {}
    /\ LET new == [id |-> CHOOSE i \in FreeIds : \A j \in FreeIds : i <= j,
                   row |-> QueryRow(owner, EmptyStr, "", <<>>)]
           ok == /\ ~PolicyFails("queries")
                 /\ QueriesInsertCheck(c, new)
                 /\ ReferencesProfile(owner)
       IN  /\ queries' = IF ok THEN queries \cup {new} ELSE queries
           /\ statement' = IF ok THEN Ran(c, "insert", "queries", {new})
                            ELSE Refused(c, "insert", "queries")
    /\ UNCHANGED <<env, supabase, supabaseAdmin, lifecycle, usersReadable,
                   authUsers, profiles, pc, req, trace, responses, answer,
                   resources, ops, logState, logRow, identity, nexts, thrown,
                   searchState>>

\* A client deletes the queries rows it may delete.
ClientDeleteQueries(c) ==
    /\ LET rows == {q \in queries : QueriesDeleteUsing(c, q)} IN
        IF PolicyFails("queries")
            THEN /\ statement' = Refused(c, "delete", "queries")
                 /\ UNCHANGED queries
            ELSE /\ statement' = Ran(c, "delete", "queries", rows)
                 /\ queries' = queries \ rows
    /\ UNCHANGED <<env, supabase, supabaseAdmin, lifecycle, usersReadable,
                   authUsers, profiles, pc, req, trace, responses, answer,
                   resources, ops, logState, logRow, identity, nexts, thrown,
                   searchState>>

\* A client inserts a profiles row.
ClientInsertProfile(c, id, email) ==
    /\ LET new == [id |-> id, email |-> email]
           ok == /\ ~PolicyFails("profiles")
                 /\ ProfilesInsertCheck(c, new)
                 /\ \A p \in profiles : p.id # id
                 /\ EmailFree(profiles, id, email)
       IN  /\ profiles' = IF ok THEN profiles \cup {new} ELSE profiles
           /\ statement' = IF ok THEN Ran(c, "insert", "profiles", {new})
                            ELSE Refused(c, "insert", "profiles")
    /\ UNCHANGED <<env, supabase, supabaseAdmin, lifecycle, usersReadable,
                   authUsers, pc, req, trace, responses, answer, resources,
                   ops, logState, logRow, identity, nexts, thrown,
                   searchState, queries>>

\* A client sets the email of the profiles rows it may update.
ClientUpdateProfile(c, email) ==
    /\ LET rows == {p \in profiles : ProfilesUpdateUsing(c, p)}
           new == {[id |-> p.id, email |-> email] : p \in rows}
           ok == /\ ~PolicyFails("profiles")
                 /\ \A p \in profiles \ rows : p.email # email
       IN  /\ profiles' = IF ok THEN (profiles \ rows) \cup new ELSE profiles
           /\ statement' = IF ok THEN Ran(c, "update", "profiles", new)
                            ELSE Refused(c, "update", "profiles")
    /\ UNCHANGED <<env, supabase, supabaseAdmin, lifecycle, usersReadable,
                   authUsers, pc, req, trace, responses, answer, resources,
                   ops, logState, logRow, identity, nexts, thrown,
                   searchState, queries>>

\* The user ids saveQuery hands to the insert: null, the id of a verified
\* identity, or the mock identity's id, which is no UUID.
LoggedUserIds == UserIds \cup {"null", "mock-user-id"}

\* saveQuery's insert as the store sees it: the privileged role bypasses the
\* policies; the column type and the foreign key are enforced.
ServiceInsertQuery(owner) ==
    /\ FreeIds # {}
    /\ LET new == [id |-> CHOOSE i \in FreeIds : \A j \in FreeIds : i <= j,
                   row |-> QueryRow(owner, EmptyStr, "", <<>>)]
           ok == ReferencesProfile(owner)
       IN  queries' = IF ok THEN queries \cup {new} ELSE queries
    /\ UNCHANGED <<env, supabase, supabaseAdmin, lifecycle, usersReadable,
                   statement, authUsers, profiles, pc, req, trace, responses,
                   answer, resources, ops, logState, logRow, identity, nexts,
                   thrown, searchState>>

\* A profile is deleted by an administrator (no policy lets a client delete
\* one): ON DELETE CASCADE removes the queries rows that reference it.
ProfileDeleted(id) ==
    /\ \E p \in profiles : p.id = id
    /\ profiles' = {p \in profiles : p.id # id}
    /\ queries' = {q \in queries : q.row.user_id # id}
    /\ UNCHANGED <<env, supabase, supabaseAdmin, lifecycle, usersReadable,
                   statement, authUsers, pc, req, trace, responses, answer,
                   resources, ops, logState, logRow, identity, nexts, thrown,
                   searchState>>

\* The identities of auth.users that have no profile.
WithoutProfile == {a \in authUsers : \A p \in profiles : p.id # a.id}

\* The second migration is applied (again): profiles are made for the
\* identities that have none, and the user_id of queries rows that reference
\* no profile is set to NULL.  An email some profile already holds, or two
\* identities with one email, break the UNIQUE constraint: the migration
\* fails and changes nothing.
MigrationApplied ==
    /\ LET missing == {[id |-> a.id, email |-> a.email] : a \in WithoutProfile}
           ok == /\ \A m \in missing : \A p \in profiles : p.email # m.email
                 /\ \A m, n \in missing : m.email = n.email => m.id = n.id
           synced == profiles \cup missing
       IN  /\ profiles' = IF ok THEN synced ELSE profiles
           /\ queries' = IF ok
                THEN { IF \E p \in synced : p.id = q.row.user_id
                         THEN q
                         ELSE [q EXCEPT !.row.user_id = "null"] : q \in queries }
                ELSE queries
    /\ UNCHANGED <<env, supabase, supabaseAdmin, lifecycle, usersReadable,
                   statement, authUsers, pc, req, trace, responses, answer,
                   resources, ops, logState, logRow, identity, nexts, thrown,
                   searchState>>

\* The store after both migrations: no identity yet, and a queries row the
\* second migration may have left with a null user_id.  Whether the client
\* roles may read auth.users is the platform's choice.
InitStore ==
    /\ InitService
    /\ env.url /\ env.anonKey /\ env.serviceRoleKey
    /\ env.nodeEnv = "production"
    /\ queries \in {{}, {[id |-> 1, row |-> QueryRow("null", EmptyStr, "", <<>>)]}}
    /\ authUsers = {}
    /\ profiles = {}
    /\ usersReadable \in BOOLEAN
    /\ statement = NoStatement

NextStore ==
    \/ \E u \in UserIds, email \in Emails : AuthUserCreated(u, email)
    \/ \E c \in Callers :
        \/ \E table \in {"queries", "profiles", "resources"} : ClientSelect(c, table)
        \/ \E owner \in UserIds \cup {"null"} : ClientInsertQuery(c, owner)
        \/ ClientDeleteQueries(c)
        \/ \E id \in UserIds, email \in Emails : ClientInsertProfile(c, id, email)
        \/ \E email \in Emails : ClientUpdateProfile(c, email)
    \/ \E owner \in LoggedUserIds : ServiceInsertQuery(owner)
    \/ \E u \in UserIds, email \in Emails : AuthUserUpdated(u, email)
    \/ \E id \in UserIds : ProfileDeleted(id)
    \/ MigrationApplied

SpecStore == InitStore /\ [][NextStore]_vars

\* The store while identities are created and changed, queries are logged
\* and clients read; nobody writes to profiles but the trigger.
NextIdentities ==
    \/ \E u \in UserIds, email \in Emails : AuthUserCreated(u, email)
    \/ \E u \in UserIds, email \in Emails : AuthUserUpdated(u, email)
    \/ \E owner \in LoggedUserIds : ServiceInsertQuery(owner)
    \/ \E c \in Callers :
            \E table \in {"queries", "profiles", "resources"} : ClientSelect(c, table)

SpecIdentities == InitStore /\ [][NextIdentities]_vars

\* ------------------------------------------- the terminal handler alone
\* The errors a middleware or handler can pass to next(err): a plain Error,
\* errors of the framework's middleware that carry a status (the body
\* parser's 400 and 413), and AppErrors of several status codes, the
\* constructor's default 500 among them.
TerminalErrors ==
    { Error("boom", FALSE, 0),
      ParseError,
      Error("request entity too large", FALSE, 413),
      Error("Resource not found", TRUE, 404),
      Error("Bad request", TRUE, 400),
      Error("Unexpected failure", TRUE, 500),
      Error("Backend unavailable", TRUE, 503) }

\* next(err): Express skips to app.use(errorHandler), which answers.
PassError(r, err) ==
    /\ EventLoopFree
    /\ pc[r] = "json"
    /\ thrown' = [thrown EXCEPT ![r] = err]
    /\ Invoke(r, "errorHandler")
    /\ Send(r, errorHandler(err))
    /\ pc' = [pc EXCEPT ![r] = "done"]
    /\ UNCHANGED <<env, supabase, supabaseAdmin, lifecycle, store, searchState,
                   identity, nexts, req, answer, resources, ops, logState,
                   logRow, queries>>

NextErrors ==
    \E r \in Requests :
        \/ \E route \in Routes : Arrive(r, route)
        \/ \E err \in TerminalErrors : PassError(r, err)

SpecErrors == Init /\ [][NextErrors]_vars

\* ------------------------------------------- the answer generator alone
\* The texts handleAskJiji hands to generateMockAnswer: validated queries
\* (trimmed, not empty), with the keywords in several cases and positions.
AnswerTexts ==
    { <<>>,
      <<"r", "a", "g">>,
      <<"R", "A", "G">>,
      <<"r", "A", "g">>,
      <<"s", "t", "o", "r", "a", "g", "e">>,
      <<"r", "a">>,
      <<"r", "a", " ", "g">>,
      <<"n", "e", "u", "r", "a", "l", " ", "n", "e", "t", "w", "o", "r", "k">>,
      <<"N", "e", "u", "r", "a", "l", " ", "N", "e", "t", "w", "o", "r", "k", " ", "R", "A", "G">>,
      <<"d", "e", "e", "p", " ", "l", "e", "a", "r", "n", "i", "n", "g">>,
      <<"D", "e", "e", "p", " ", "L", "e", "a", "r", "n", "i", "n", "g", " ", "w", "i", "t", "h", " ", "r", "a", "g">>,
      <<"h", "e", "l", "l", "o">>,
      <<"n", "e", "u", "r", "a", "l">>,
      <<"d", "r", "a", "g", "o", "n", " ", "N", "E", "U", "R", "A", "L", " ", "N", "E", "T", "W", "O", "R", "K">> }

AnswerInputs ==
    { Str(0, t, n, 0) : t \in AnswerTexts, n \in 0..MaxFill } \ {EmptyStr}

\* The requests have passed authenticate (mock mode) and validateBody, each
\* with one of the inputs, and handleAskJiji is about to run.
InitAnswer ==
    /\ env = [url |-> FALSE, anonKey |-> FALSE, serviceRoleKey |-> FALSE,
              nodeEnv |-> "development"]
    /\ supabase = "null"
    /\ supabaseAdmin = "null"
    /\ pc = [r \in Requests |-> "handleAskJiji"]
    /\ req \in [Requests ->
                { [route |-> [method |-> "POST", path |-> "/ask-jiji"],
                   header |-> NoHeader, body |-> StringQuery(s),
                   sent |-> StringQuery(s), user |-> MockUser] :
                  s \in AnswerInputs }]
    /\ trace = [r \in Requests |-> <<"express.json", "authenticate", "validateBody">>]
    /\ responses = [r \in Requests |-> <<>>]
    /\ answer = [r \in Requests |-> ""]
    /\ resources = [r \in Requests |-> <<>>]
    /\ ops = [r \in Requests |-> <<>>]
    /\ logState = [r \in Requests |-> "none"]
    /\ logRow = [r \in Requests |-> NoRow]
    /\ identity = [r \in Requests |-> NoIdentity("unasked")]
    /\ nexts = [r \in Requests |-> <<"authenticate", "validateBody">>]
    /\ thrown = [r \in Requests |-> NoError]
    /\ searchState = [r \in Requests |-> "none"]
    /\ server = "listening"
    /\ proc = "running"
    /\ signal = "none"
    /\ InitStoreEmpty

NextAnswer ==
    \E r \in Requests :
        \/ handleAskJiji(r)
        \/ \E o \in SearchSettlements : SearchSettles(r, o)
        \/ Respond(r)

SpecAnswer == InitAnswer /\ [][NextAnswer]_vars


\* ------------------------------------------- authenticate alone
\* Authorization headers for authenticate: those of Headers, and bearer
\* tokens with no character, with two segments and with empty segments.
AuthHeaders ==
    Headers \cup
    { Header(BearerPrefix),
      Header(BearerPrefix \o <<"a", ".", "b">>),
      Header(BearerPrefix \o <<"a", ".", ".">>),
      Header(BearerPrefix \o <<".", ".">>),
      Header(BearerPrefix \o <<".", ".", ".">>) }

\* A POST /ask-jiji whose body has been parsed, about to enter authenticate.
InitAuth ==
    /\ InitStoreEmpty
    /\ env \in [url : BOOLEAN, anonKey : BOOLEAN, serviceRoleKey : BOOLEAN,
                nodeEnv : {"production", "development"}]
    /\ supabase = IF env.url /\ env.anonKey THEN "client" ELSE "null"
    /\ supabaseAdmin = IF env.url /\ env.serviceRoleKey THEN "client" ELSE "null"
    /\ pc = [r \in Requests |-> "authenticate"]
    /\ \E b \in {EmptyObject, StringQuery(Str(1, <<"R", "A", "G">>, 0, 1))} :
            req = [r \in Requests |->
                    [route |-> [method |-> "POST", path |-> "/ask-jiji"],
                     header |-> NoHeader, body |-> b, sent |-> b,
                     user |-> NoUser]]
    /\ trace = [r \in Requests |-> <<"express.json">>]
    /\ responses = [r \in Requests |-> <<>>]
    /\ answer = [r \in Requests |-> ""]
    /\ resources = [r \in Requests |-> <<>>]
    /\ ops = [r \in Requests |-> <<>>]
    /\ logState = [r \in Requests |-> "none"]
    /\ logRow = [r \in Requests |-> NoRow]
    /\ identity = [r \in Requests |-> NoIdentity("unasked")]
    /\ nexts = [r \in Requests |-> <<>>]
    /\ thrown = [r \in Requests |-> NoError]
    /\ searchState = [r \in Requests |-> "none"]
    /\ server = "listening"
    /\ proc = "running"
    /\ signal = "none"

NextAuth ==
    \E r \in Requests :
        \/ \E h \in AuthHeaders : authenticate(r, h)
        \/ validateBody(r)

SpecAuth == InitAuth /\ [][NextAuth]_vars

\* ------------------------------------------------------------ vocabulary
Invoked(r, handler) == \E i \in 1..Len(trace[r]) : trace[r][i] = handler

Count(seq, x) == Cardinality({ i \in 1..Len(seq) : seq[i] = x })

\* authenticate called next().
PassedAuthentication(r) == Count(nexts[r], "authenticate") >= 1

\* The request is finished and was answered once, with this status.
Answered(r, status) ==
    /\ pc[r] = "done"
    /\ Len(responses[r]) = 1
    /\ responses[r][1].status = status

HasQueryDetail(response) ==
    \E i \in 1..Len(response.details) : response.details[i].field = "query"

PostAskJiji == [method |-> "POST", path |-> "/ask-jiji"]

\* A body without `query`, or with a `query` that is empty, only whitespace
\* or longer than 1000 characters.
QueryMissingOrBad(b) ==
    \/ b.qtype = "absent"
    \/ /\ b.qtype = "string"
       /\ \/ Length(b.query) = 0
          \/ Length(Trim(b.query)) = 0
          \/ Length(b.query) > MaxQueryLen

\* A body with a string `query` of at most 1000 characters as sent and at
\* least one character once trimmed.
WellFormed(b) ==
    /\ b.kind = "object"
    /\ b.qtype = "string"
    /\ Length(b.query) <= MaxQueryLen
    /\ Length(Trim(b.query)) >= 1

\* ------------------------------------------------------------ C1
\* C1 as stated: every POST /ask-jiji request whose body is missing `query`,
\* or whose `query` is empty, whitespace-only or longer than 1000 characters,
\* is answered 400 with a `details` entry whose field is `query`.
C1_AsStated ==
    \A r \in Requests :
        ( /\ req[r].route = PostAskJiji
          /\ Invoked(r, "express.json")
          /\ ~Invoked(r, "errorHandler")
          /\ pc[r] = "done"
          /\ QueryMissingOrBad(req[r].sent) )
        => (Answered(r, 400) /\ HasQueryDetail(responses[r][1]))

\* C1 (amended): every POST /ask-jiji request that passes authentication and
\* whose body is a JSON object that is missing `query`, or whose `query` is
\* empty, whitespace-only or longer than 1000 characters, is answered 400
\* with a `details` entry whose field is `query`, and goes no further.
C1_InvalidQueryIs400 ==
    \A r \in Requests :
        ( /\ PassedAuthentication(r)
          /\ Invoked(r, "validateBody")
          /\ req[r].sent.kind = "object"
          /\ QueryMissingOrBad(req[r].sent) )
        => /\ Answered(r, 400)
           /\ HasQueryDetail(responses[r][1])
           /\ ~Invoked(r, "handleAskJiji")

C1_Witness ==
    \E r \in Requests :
        /\ PassedAuthentication(r)
        /\ req[r].sent = StringQuery(Str(2, <<>>, 0, 0))
        /\ Answered(r, 400)

\* ------------------------------------------------------------ C2
\* C2: a request that authenticate receives without a bearer-style
\* Authorization header, the identity backend being configured, is answered
\* 401; next() is not called, and no search and no log write is made.
C2_MissingBearerIs401 ==
    \A r \in Requests :
        ( /\ isSupabaseConfigured
          /\ Invoked(r, "authenticate")
          /\ ~HasBearer(req[r].header) )
        => /\ Answered(r, 401)
           /\ responses[r][1].error =
                ErrorText("Authorization header required. Use: Bearer <token>")
           /\ nexts[r] = <<>>
           /\ ~Invoked(r, "validateBody")
           /\ ~Invoked(r, "handleAskJiji")
           /\ ops[r] = <<>>
           /\ logState[r] = "none"

C2_Witness ==
    \E r \in Requests :
        /\ isSupabaseConfigured
        /\ Invoked(r, "authenticate")
        /\ req[r].header.has
        /\ ~HasBearer(req[r].header)
        /\ Answered(r, 401)

\* ------------------------------------------------------------ C3
\* C3 as stated: with the identity backend unconfigured, every request to
\* /ask-jiji, whatever its Authorization header, is given the mock identity,
\* and is answered 200 whenever its body is valid.
C3_AsStated ==
    \A r \in Requests :
        (~isSupabaseConfigured /\ Invoked(r, "authenticate"))
        => /\ req[r].user = MockUser
           /\ PassedAuthentication(r)
           /\ (pc[r] = "done" /\ WellFormed(req[r].sent)) => Answered(r, 200)

\* C3 (amended): with the identity backend unconfigured, a request to
\* /ask-jiji that has no bearer-style header, or whose bearer token splits on
\* "." into exactly three segments, is given the mock identity without any
\* call to the identity service, and is answered 200 whenever its body is
\* valid; a bearer token of any other shape is answered 401.
C3_MockModeIdentity ==
    \A r \in Requests :
        (~isSupabaseConfigured /\ Invoked(r, "authenticate"))
        => IF \/ ~HasBearer(req[r].header)
              \/ SplitLength(TokenOf(req[r].header), ".") = 3
            THEN /\ req[r].user = MockUser
                 /\ PassedAuthentication(r)
                 /\ Count(ops[r], "auth.getUser") = 0
                 /\ (pc[r] = "done" /\ WellFormed(req[r].sent))
                        => Answered(r, 200)
            ELSE /\ Answered(r, 401)
                 /\ ~PassedAuthentication(r)

C3_Witness ==
    \E r \in Requests :
        /\ ~isSupabaseConfigured
        /\ ~req[r].header.has
        /\ req[r].user = MockUser
        /\ WellFormed(req[r].sent)
        /\ Answered(r, 200)

\* ------------------------------------------------------------ C4
\* C4: with the identity service configured and a bearer token presented,
\* authenticate asks the identity service once; on an error or no user it
\* answers 401 and does not call next(); on a user it attaches that user's
\* id, the email or "" and the role or "authenticated", and calls next()
\* exactly once.
C4_DelegatedVerification ==
    \A r \in Requests :
        ( /\ isSupabaseConfigured
          /\ Invoked(r, "authenticate")
          /\ HasBearer(req[r].header) )
        => /\ Count(ops[r], "auth.getUser") = 1
           /\ pc[r] = "getUser" => (nexts[r] = <<>> /\ responses[r] = <<>>)
           /\ (pc[r] # "getUser" /\ identity[r].kind \in {"error", "nouser"})
                => /\ Answered(r, 401)
                   /\ responses[r][1].error = ErrorText("Invalid or expired token")
                   /\ nexts[r] = <<>>
                   /\ ~Invoked(r, "validateBody")
           /\ (pc[r] # "getUser" /\ identity[r].kind = "user")
                => /\ req[r].user.set
                   /\ req[r].user.id = identity[r].id
                   /\ req[r].user.email =
                        (IF identity[r].email \in {Absent, Some("")}
                            THEN "" ELSE identity[r].email[1])
                   /\ req[r].user.role =
                        (IF identity[r].role \in {Absent, Some("")}
                            THEN "authenticated" ELSE identity[r].role[1])
                   /\ Count(nexts[r], "authenticate") = 1

C4_Witness ==
    \E r \in Requests :
        /\ isSupabaseConfigured
        /\ identity[r].kind = "user"
        /\ identity[r].role = Absent
        /\ req[r].user.role = "authenticated"
        /\ Count(nexts[r], "authenticate") = 1

\* ------------------------------------------------------------ C5
\* C5: when the authentication step throws, the client is answered 500
\* "Authentication service unavailable"; next() is not called, so neither
\* validation nor the handler runs.
C5_AuthFailureIs500 ==
    \A r \in Requests :
        identity[r].kind = "throw"
        => /\ Answered(r, 500)
           /\ responses[r][1].error = ErrorText("Authentication service unavailable")
           /\ ~responses[r][1].success
           /\ nexts[r] = <<>>
           /\ ~Invoked(r, "validateBody")
           /\ ~Invoked(r, "handleAskJiji")

C5_Witness ==
    \E r \in Requests : identity[r].kind = "throw" /\ Answered(r, 500)


\* ------------------------------------------------------------ C6
\* C6 as stated: validateBody accepts a body exactly when `query` is a string
\* whose length after trimming is between 1 and 1000.
C6_AsStated ==
    \A r \in Requests :
        Invoked(r, "validateBody")
        => ( Count(nexts[r], "validateBody") = 1
             <=> /\ req[r].sent.kind = "object"
                 /\ req[r].sent.qtype = "string"
                 /\ Length(Trim(req[r].sent.query)) >= 1
                 /\ Length(Trim(req[r].sent.query)) <= MaxQueryLen )

\* C6 (amended): validateBody accepts a body exactly when `query` is a string
\* of at most 1000 characters as sent (before trimming) and of at least one
\* character after trimming; every other body is rejected with 400, and an
\* accepted body is replaced by the one with the query trimmed.
C6_AcceptsExactlyWellFormed ==
    \A r \in Requests :
        Invoked(r, "validateBody")
        => /\ Count(nexts[r], "validateBody") = 1 <=> WellFormed(req[r].sent)
           /\ Count(nexts[r], "validateBody") = 0 <=> Answered(r, 400)
           /\ WellFormed(req[r].sent)
                => req[r].body = StringQuery(Trim(req[r].sent.query))

C6_Witness ==
    \E r \in Requests :
        /\ Invoked(r, "validateBody")
        /\ req[r].sent.qtype = "string"
        /\ Length(req[r].sent.query) > MaxQueryLen
        /\ Length(Trim(req[r].sent.query)) <= MaxQueryLen
        /\ Answered(r, 400)

\* ------------------------------------------------------------ C7
\* C7: once handleAskJiji has called saveQuery, whatever becomes of the
\* write (skipped, pending for ever, row inserted, database error, thrown
\* exception), the handler is not held back (it is about to respond, or has
\* responded), the one response is the 200 made of the answer and the
\* resources, and the terminal error handler is not invoked.
C7_LogWriteNeverAltersResponse ==
    \A r \in Requests :
        logState[r] # "none"
        => /\ pc[r] \in {"respond", "done"}
           /\ pc[r] = "respond" => (responses[r] = <<>> /\ ENABLED Respond(r))
           /\ pc[r] = "done"
                => responses[r] = <<AskJijiResponse(answer[r], resources[r])>>
           /\ ~Invoked(r, "errorHandler")

C7_Witness ==
    \E r \in Requests :
        /\ logState[r] = "threw"
        /\ Answered(r, 200)
        /\ ~Invoked(r, "errorHandler")

\* ------------------------------------------------------------ C8
\* C8: whenever the log write of a request has settled, the response of that
\* request has already been sent.
C8_ResponseBeforeLogSettles ==
    \A r \in Requests :
        logState[r] \in LogOutcomes => Answered(r, 200)

C8_Witness ==
    \E r \in Requests :
        /\ logState[r] = "pending"
        /\ Answered(r, 200)
        /\ ENABLED LogSettles(r, "inserted")

\* ------------------------------------------------------------ C9
Inserts(r) == Count(ops[r], "queries.insert")

Rejected(r) ==
    /\ Len(responses[r]) >= 1
    /\ responses[r][1].status \in {400, 401, 404}

\* Every call the service makes while serving a request is the verification
\* of a token, the select on resources or the insert into queries.
OnlyInsertsIntoQueries(r) ==
    \A i \in 1..Len(ops[r]) :
        ops[r][i] \in {"auth.getUser", "resources.select", "queries.insert"}

\* C9 as stated: every request that reaches processing makes exactly one
\* insert attempt; a request rejected with 400, 401 or 404 makes none; no
\* other operation on the queries table is made.
C9_AsStated ==
    \A r \in Requests :
        /\ (Invoked(r, "handleAskJiji") /\ pc[r] = "done") => Inserts(r) = 1
        /\ Rejected(r) => Inserts(r) = 0
        /\ OnlyInsertsIntoQueries(r)

\* C9 (amended): a request makes at most one insert attempt on the queries
\* table: a request that reaches processing makes exactly one when the
\* elevated credentials are configured and none when they are not; a request
\* rejected with 400, 401 or 404 makes none; at most one row is stored per
\* request, and no update, delete or select on the queries table is made.
C9_AtMostOneInsert ==
    \A r \in Requests :
        /\ Inserts(r) <= 1
        /\ (Invoked(r, "handleAskJiji") /\ pc[r] \in {"respond", "done"})
                => Inserts(r) = (IF env.url /\ env.serviceRoleKey THEN 1 ELSE 0)
        /\ Rejected(r) => Inserts(r) = 0
        /\ OnlyInsertsIntoQueries(r)
        /\ Cardinality({ q \in queries : q.id = r }) <= Inserts(r)

C9_Witness ==
    \E r \in Requests :
        /\ Invoked(r, "handleAskJiji")
        /\ pc[r] = "done"
        /\ Inserts(r) = 1
        /\ logState[r] = "dberror"

\* ------------------------------------------------------------ C10
\* C10 as stated: with the database unconfigured, every POST /ask-jiji with a
\* valid body is answered 200 with an empty resources list.
C10_AsStated ==
    \A r \in Requests :
        ( /\ ~isSupabaseConfigured
          /\ req[r].route = PostAskJiji
          /\ Invoked(r, "express.json")
          /\ ~Invoked(r, "errorHandler")
          /\ WellFormed(req[r].sent)
          /\ pc[r] = "done" )
        => (Answered(r, 200) /\ responses[r][1].data.resources = <<>>)

\* C10 (amended): with the database unconfigured, searchResources queries
\* nothing and returns the empty list for every query, and every POST
\* /ask-jiji that passes authentication with a valid body is answered 200
\* with `resources: []`.
C10_UnconfiguredSearchIsEmpty ==
    \A r \in Requests :
        ~isSupabaseConfigured
        => /\ Count(ops[r], "resources.select") = 0
           /\ resources[r] = <<>>
           /\ ( /\ PassedAuthentication(r)
                /\ WellFormed(req[r].sent)
                /\ pc[r] = "done" )
              => /\ Answered(r, 200)
                 /\ responses[r][1].data.kind = "ask"
                 /\ responses[r][1].data.resources = <<>>

C10_Witness ==
    \E r \in Requests :
        /\ ~isSupabaseConfigured
        /\ Invoked(r, "handleAskJiji")
        /\ Answered(r, 200)
        /\ responses[r][1].data.resources = <<>>

\* ------------------------------------------------------------ C11
\* C11: however the resource search of a request fails (the database answers
\* with an error, or the call throws), the handler goes on with the empty
\* list: the request is answered 200 with `resources: []`, the terminal error
\* handler is not invoked and no 500 is sent.
C11_SearchFailureIsEmpty200 ==
    \A r \in Requests :
        searchState[r] \in {"error", "threw"}
        => /\ resources[r] = <<>>
           /\ pc[r] \in {"respond", "done"}
           /\ ~Invoked(r, "errorHandler")
           /\ thrown[r] = NoError
           /\ pc[r] = "done"
                => /\ Answered(r, 200)
                   /\ responses[r][1].data.kind = "ask"
                   /\ responses[r][1].data.resources = <<>>

C11_Witness ==
    \E r \in Requests :
        /\ searchState[r] = "threw"
        /\ PassedAuthentication(r)
        /\ WellFormed(req[r].sent)
        /\ Answered(r, 200)
        /\ responses[r][1].data.resources = <<>>

\* ------------------------------------------------------------ C12
\* Two characters are the same letter, whatever their case.
SameLetter(a, b) ==
    a = b \/ \E i \in 1..Len(Upper) : {a, b} = {Upper[i], Lower[i]}

\* The text contains the keyword at some position, case-insensitively.
ContainsAnyCase(s, k) ==
    \E i \in 1..(Length(s) - Len(k) + 1) :
        \A j \in 1..Len(k) : SameLetter(CharAt(s, i + j - 1), k[j])

ContainsKnownKeyword(s) ==
    \/ ContainsAnyCase(s, <<"r", "a", "g">>)
    \/ ContainsAnyCase(s, <<"n", "e", "u", "r", "a", "l", " ",
                            "n", "e", "t", "w", "o", "r", "k">>)
    \/ ContainsAnyCase(s, <<"d", "e", "e", "p", " ",
                            "l", "e", "a", "r", "n", "i", "n", "g">>)

\* C12: the answer generateMockAnswer returned for a query is the RAG string
\* whenever the query contains "rag" in any case (also next to other
\* keywords), and the fallback string whenever it contains none of the known
\* keywords; two calls with the same query returned the same answer, and the
\* answer is the one the response carries.
C12_AnswerByKeyword ==
    \A r \in Requests :
        Invoked(r, "handleAskJiji")
        => LET q == req[r].body.query IN
           /\ ContainsAnyCase(q, <<"r", "a", "g">>) => answer[r] = RagAnswer
           /\ ~ContainsKnownKeyword(q) => answer[r] = FallbackAnswer
           /\ \A r2 \in Requests :
                (Invoked(r2, "handleAskJiji") /\ req[r2].body.query = q)
                    => answer[r2] = answer[r]
           /\ pc[r] = "done" => responses[r][1].data.answer = answer[r]

C12_Witness ==
    \E r \in Requests :
        /\ Invoked(r, "handleAskJiji")
        /\ ContainsAnyCase(req[r].body.query, <<"r", "a", "g">>)
        /\ ContainsAnyCase(req[r].body.query, <<"n", "e", "u", "r", "a", "l", " ",
                            "n", "e", "t", "w", "o", "r", "k">>)
        /\ ~Includes(req[r].body.query, <<"r", "a", "g">>)
        /\ Answered(r, 200)
        /\ responses[r][1].data.answer = RagAnswer

\* ------------------------------------------------------------ C13
GetHealth == [method |-> "GET", path |-> "/health"]

\* C13 as stated: every GET /health request, whatever the configuration and
\* whatever the request carries, is answered 200 with data.status "healthy",
\* and authenticate is not run for it.
C13_AsStated ==
    \A r \in Requests :
        (req[r].route = GetHealth /\ pc[r] = "done")
        => /\ Answered(r, 200)
           /\ responses[r][1].data.kind = "health"
           /\ responses[r][1].data.status = "healthy"
           /\ ~Invoked(r, "authenticate")

\* ------------------------------------------------------------ C14
\* C14 as stated: every request whose method and path are neither GET /health
\* nor POST /ask-jiji is answered with the 404 of notFoundHandler
\* ({success: false, error}), and no authentication, validation, search or
\* log write is made for it.
C14_AsStated ==
    \A r \in Requests :
        (req[r].route \notin {NoRoute, GetHealth, PostAskJiji} /\ pc[r] = "done")
        => /\ Answered(r, 404)
           /\ responses[r][1] = NotFoundResponse(req[r].route)
           /\ ~Invoked(r, "authenticate")
           /\ ~Invoked(r, "validateBody")
           /\ ~Invoked(r, "handleAskJiji")
           /\ ops[r] = <<>>
           /\ logState[r] = "none"

\* ------------------------------------------------------------ C15
GenericMessage == ErrorText("Internal server error")

C16_StatusFromAppErrorOnly ==
    \A r \in Requests :
        (thrown[r] # NoError /\ Invoked(r, "errorHandler"))
        => /\ Len(responses[r]) = 1
           /\ thrown[r].appError
                => responses[r][1].status = thrown[r].statusCode
           /\ ~thrown[r].appError => responses[r][1].status = 500

C16_Witness ==
    \E r \in Requests :
        /\ thrown[r] = Error("Backend unavailable", TRUE, 503)
        /\ Invoked(r, "errorHandler")
        /\ Answered(r, 503)

\* ------------------------------------------------------------ C17
\* The body of the request cannot be interpreted: it is not JSON, it is no
\* JSON object, or its `query` is invalid.
BodyBlocksInterpretation(r) ==
    \/ thrown[r] = ParseError
    \/ (Invoked(r, "express.json") /\ askJijiSchema(req[r].sent) # <<>>)

\* C17 as stated: every POST /ask-jiji request whose body cannot be
\* interpreted is answered 400 with a message, and never 500.
C17_AsStated ==
    \A r \in Requests :
        (req[r].route = PostAskJiji /\ pc[r] = "done" /\ BodyBlocksInterpretation(r))
        => /\ Answered(r, 400)
           /\ responses[r][1].error # ErrorText("")

\* ------------------------------------------------------------ C18
\* C18: once a termination signal has been received no new connection is
\* accepted (a request that has not arrived never arrives); the process has
\* exited only if a signal was received, the listener has closed and no
\* accepted request is left unanswered; and it never exits while the
\* listener is still open or closing.
C18_ExitOnlyAfterClose ==
    /\ [](/\ signal # "none" => server # "listening"
          /\ proc = "exited"
                => /\ server = "closed"
                   /\ signal \in Signals
                   /\ \A r \in Requests : ~InFlight(r)
          /\ server = "closed" => proc = "exited")
    /\ [][signal # "none"
            => \A r \in Requests : pc[r] = "idle" => pc'[r] = "idle"]_vars

C18_Witness ==
    /\ proc = "exited"
    /\ server = "closed"
    /\ signal = "SIGINT"
    /\ \E r \in Requests : Answered(r, 200) /\ Invoked(r, "handleAskJiji")

\* ------------------------------------------------------------ C19
\* The request was let through with the synthesized identity.
ServedWithMockIdentity(r) ==
    /\ PassedAuthentication(r)
    /\ req[r].user = MockUser
    /\ identity[r].kind = "unasked"

\* C19 as stated: whenever the service synthesizes the mock identity for a
\* request, both client handles having been set up without failure, the
\* search of that request queries nothing and returns the empty list, and
\* the log write is skipped: no insert into queries is attempted.
C19_AsStated ==
    \A r \in Requests :
        ServedWithMockIdentity(r)
        => /\ supabase = "null"
           /\ Count(ops[r], "resources.select") = 0
           /\ resources[r] = <<>>
           /\ Inserts(r) = 0
           /\ logState[r] \in {"none", "skipped"}
           /\ \A q \in queries : q.id # r

\* ------------------------------------------------------------ C20
\* C20 as stated: every statement of a client that the policies let through
\* returns, stores or removes only rows of the caller: a queries row whose
\* user_id is the caller's id, a profiles row whose id is the caller's id;
\* resources rows are returned to authenticated callers only.  The anonymous
\* role, whose id is null, is given no queries row and can insert none.
C20_AsStated ==
    LET c == statement.caller IN
    (statement.op # "none" /\ ~statement.error)
    => /\ statement.table = "queries"
            => \A q \in statement.rows :
                    c.uid # "null" /\ q.row.user_id = c.uid
       /\ statement.table = "profiles"
            => \A p \in statement.rows : c.uid # "null" /\ p.id = c.uid
       /\ statement.table = "resources"
            => (statement.rows # {} => c.role = "authenticated")

\* ------------------------------------------------------------ C21
\* The stages of the chain of POST /ask-jiji, in the order of the route.
Stages == <<"authenticate", "validateBody", "handleAskJiji">>

\* The stages of the chain a request has entered, in the order it entered them.
StagesEntered(r) ==
    SelectSeq(trace[r], LAMBDA h : \E i \in 1..Len(Stages) : Stages[i] = h)

\* Authentication succeeded: the mock identity was given, or the identity
\* service verified the token.
AuthenticationSucceeded(r) ==
    /\ PassedAuthentication(r)
    /\ req[r].user.set
    /\ \/ AuthBranch(req[r].header) = "mock"
       \/ identity[r].kind = "user"

\* Validation succeeded: the schema found no issue in the body as sent.
ValidationSucceeded(r) ==
    /\ Count(nexts[r], "validateBody") = 1
    /\ askJijiSchema(req[r].sent) = <<>>

\* The handler has worked for the request: an answer, a search or a log write.
HandlerActed(r) ==
    \/ answer[r] # ""
    \/ searchState[r] # "none"
    \/ logState[r] # "none"
    \/ Count(ops[r], "resources.select") + Count(ops[r], "queries.insert") > 0

\* The position of a request in the pipeline, as a number.
StageRank(p) ==
    CASE p = "idle" -> 0
      [] p = "json" -> 1
      [] p = "route" -> 2
      [] p = "authenticate" -> 3
      [] p = "getUser" -> 4
      [] p = "validateBody" -> 5
      [] p = "handleAskJiji" -> 6
      [] p = "search" -> 7
      [] p = "respond" -> 8
      [] p = "done" -> 9
      [] OTHER -> 10

StagesInOrder ==
    \A r \in Requests :
        /\ \E n \in 0..Len(Stages) : StagesEntered(r) = SubSeq(Stages, 1, n)
        /\ Invoked(r, "validateBody") => AuthenticationSucceeded(r)
        /\ Invoked(r, "handleAskJiji")
                => (AuthenticationSucceeded(r) /\ ValidationSucceeded(r))
        /\ HandlerActed(r) => Invoked(r, "handleAskJiji")
        /\ (Len(responses[r]) >= 1 /\ responses[r][1].status \in {400, 401, 500})
                => (~HandlerActed(r) /\ ~Invoked(r, "handleAskJiji"))
        /\ (Len(responses[r]) >= 1 /\ responses[r][1].status \in {401, 500})
                => ~Invoked(r, "validateBody")
        /\ (req[r].route = PostAskJiji /\ Answered(r, 200))
                => trace[r] = <<"express.json">> \o Stages

\* A request moves forward only, and an answered request moves no more.
StagesOnlyForward ==
    \A r \in Requests :
        /\ StageRank(pc'[r]) >= StageRank(pc[r])
        /\ pc[r] = "done" => (pc'[r] = "done" /\ trace'[r] = trace[r]
                                /\ responses'[r] = responses[r])

\* C21: a request goes through authenticate, validateBody and handleAskJiji
\* in that order and moves forward only; validateBody runs only after
\* authentication succeeded, the handler (answer, search, log write) only
\* after authentication and then validation succeeded; a request answered
\* 401, 500 or 400 by a stage never enters a later stage; a 200 of
\* POST /ask-jiji comes after all three stages.
C21_StagesInOrder == []StagesInOrder /\ [][StagesOnlyForward]_vars

C21_Witness ==
    \E r \in Requests :
        /\ req[r].route = PostAskJiji
        /\ identity[r].kind = "user"
        /\ trace[r] = <<"express.json">> \o Stages
        /\ Answered(r, 200)

\* ------------------------------------------------------------ C22
\* The insert of the log row has been started and the response has not been
\* sent yet.
InsertStartedUnanswered(r) == Inserts(r) > 0 /\ responses[r] = <<>>

\* C22 as stated: the query-log insert is started only once the response has
\* been sent.
C22_AsStated ==
    \A r \in Requests : Inserts(r) > 0 => Len(responses[r]) >= 1

InsertStartedInRespondingBlock ==
    \A r \in Requests :
        /\ Inserts(r) > 0 => (searchState[r] # "none" /\ logState[r] # "none")
        /\ InsertStartedUnanswered(r)
                => (pc[r] = "respond" /\ logState[r] = "pending")

ResponseFollowsInsertStart ==
    \A r \in Requests :
        InsertStartedUnanswered(r)
            => /\ responses'[r] = <<AskJijiResponse(answer[r], resources[r])>>
               /\ logState'[r] = "pending"

\* C22 (amended): the query-log insert is started before the response is
\* sent, by the handler once the search has settled, and is not awaited: the
\* very next step after the start of the insert is the 200 response of the
\* same request, with the insert still pending.
C22_InsertStartedJustBeforeResponse ==
    []InsertStartedInRespondingBlock /\ [][ResponseFollowsInsertStart]_vars

C22_Witness ==
    \E r \in Requests :
        /\ InsertStartedUnanswered(r)
        /\ pc[r] = "respond"
        /\ ENABLED Respond(r)

\* ------------------------------------------------------------ C23
\* validateBody answered: one of the responses is a 400.
ValidationResponded(r) ==
    \E i \in 1..Len(responses[r]) : responses[r][i].status = 400

\* The 400 of validateBody: one {field, message, code} per issue of the
\* schema, in the order of the issues, and the summary made of them.
IsValidationFailure(response, issues) ==
    /\ response.status = 400
    /\ ~response.success
    /\ Len(response.details) = Len(issues)
    /\ Len(issues) >= 1
    /\ \A i \in 1..Len(issues) :
            /\ response.details[i].field \in {"body", "query"}
            /\ response.details[i].field = "body" <=> issues[i].path = <<>>
            /\ response.details[i].message = issues[i].message
            /\ response.details[i].code = issues[i].code
    /\ response.error.text = "Validation failed"
    /\ Len(response.error.parts) = Len(issues)
    /\ \A i \in 1..Len(issues) :
            response.error.parts[i] =
                <<response.details[i].field, response.details[i].message>>

\* C23: once validateBody has run on a body, exactly one of two things has
\* happened.  If the schema finds issues in the body as sent, the one
\* response of the request is the 400 with one {field, message, code} per
\* issue and the summary concatenated from them, the body is left as sent and
\* next() has not been called.  Otherwise next() has been called exactly
\* once, the body is the query trimmed, and no 400 is sent.  In no state has
\* validateBody both responded and called next().
C23_RespondsOrProceeds ==
    \A r \in Requests :
        Invoked(r, "validateBody")
        => LET issues == askJijiSchema(req[r].sent) IN
           /\ Count(trace[r], "validateBody") = 1
           /\ ~(ValidationResponded(r) /\ Count(nexts[r], "validateBody") > 0)
           /\ issues # <<>>
                => /\ Len(responses[r]) = 1
                   /\ IsValidationFailure(responses[r][1], issues)
                   /\ Count(nexts[r], "validateBody") = 0
                   /\ req[r].body = req[r].sent
                   /\ pc[r] = "done"
           /\ issues = <<>>
                => /\ Count(nexts[r], "validateBody") = 1
                   /\ ~ValidationResponded(r)
                   /\ req[r].body.kind = "object"
                   /\ req[r].body.qtype = "string"
                   /\ req[r].body.query = Trim(req[r].sent.query)

C23_Witness ==
    \E r \in Requests :
        /\ Invoked(r, "validateBody")
        /\ req[r].sent = StringQuery(EmptyStr)
        /\ Len(responses[r]) = 1
        /\ Len(responses[r][1].details) = 2
        /\ Count(nexts[r], "validateBody") = 0

\* ------------------------------------------------------------ C24
\* The identity service is unconfigured: no usable anonymous client.
IdentityServiceUnconfigured == ~(isSupabaseConfigured /\ supabase # "null")

\* C24: when authenticate receives a bearer header and the identity service
\* is unconfigured, it attaches the mock identity and calls next() exactly
\* when the text after "Bearer " splits on "." into exactly three segments,
\* and otherwise answers 401 'Invalid token format' and does not call
\* next(); in both cases the identity service is not contacted.
C24_MockModeStructuralCheck ==
    \A r \in Requests :
        ( /\ Invoked(r, "authenticate")
          /\ HasBearer(req[r].header)
          /\ IdentityServiceUnconfigured )
        => /\ Count(ops[r], "auth.getUser") = 0
           /\ identity[r] = NoIdentity("unasked")
           /\ IF SplitLength(TokenOf(req[r].header), ".") = 3
                THEN /\ req[r].user = MockUser
                     /\ Count(nexts[r], "authenticate") = 1
                     /\ Invoked(r, "validateBody") \/ pc[r] = "validateBody"
                     /\ \A i \in 1..Len(responses[r]) : responses[r][i].status # 401
                ELSE /\ responses[r] = <<Unauthorized("Invalid token format")>>
                     /\ pc[r] = "done"
                     /\ nexts[r] = <<>>
                     /\ req[r].user = NoUser
                     /\ ~Invoked(r, "validateBody")

C24_Witness ==
    \E r \in Requests :
        /\ IdentityServiceUnconfigured
        /\ req[r].header = Header(BearerPrefix \o <<".", ".">>)
        /\ req[r].user = MockUser
        /\ Invoked(r, "validateBody")

\* ------------------------------------------------------------ C25
\* saveQuery has been called for the request.
SaveQueryCalled(r) == Invoked(r, "handleAskJiji") /\ pc[r] \in {"respond", "done"}

\* C25: with the elevated credentials unconfigured, a call of saveQuery,
\* whatever the user id, query, answer and resource ids it is given and
\* whether or not the anonymous client is configured, has returned null at
\* once: no insert is sent, no row is built or stored, and nothing is left
\* to settle.
C25_SaveQueryNoOpWithoutAdmin ==
    \A r \in Requests :
        (~isSupabaseAdminConfigured /\ SaveQueryCalled(r))
        => /\ logState[r] = "skipped"
           /\ Inserts(r) = 0
           /\ logRow[r] = NoRow
           /\ queries = {}
           /\ \A o \in LogOutcomes : ~ENABLED LogSettles(r, o)

C25_Witness ==
    \E r \in Requests :
        /\ ~isSupabaseAdminConfigured
        /\ isSupabaseConfigured
        /\ identity[r].kind = "user"
        /\ Len(resources[r]) = MaxResults
        /\ logState[r] = "skipped"
        /\ Answered(r, 200)

\* ------------------------------------------------------------ C26
\* C26: in every state of the store, whatever log inserts, client
\* statements, profile creations and deletions and runs of the migration
\* came before, every queries row has a user_id that is null or the id of an
\* existing profile.
C26_UserIdNullOrProfile ==
    \A q \in queries :
        \/ q.row.user_id = "null"
        \/ \E p \in profiles : p.id = q.row.user_id

\* A profile has been deleted (its identity is left without one) while a
\* logged row of another profile and a row without user are stored.
C26_Witness ==
    /\ WithoutProfile # {}
    /\ \E q \in queries : \E p \in profiles : p.id = q.row.user_id
    /\ \E q \in queries : q.row.user_id = "null"

\* ------------------------------------------------------------ C27
\* C27 as stated: after any sequence of creations and changes of auth
\* identities, every auth identity has a profile whose email is the
\* identity's current email.
C27_AsStated ==
    \A a \in authUsers :
        \E p \in profiles : p.id = a.id /\ p.email = a.email

\* ------------------------------------------------------------ C28
\* The row agrees with what the response of the request serves.
RecordsWhatWasServed(row, r) ==
    LET served == responses[r][1].data IN
    /\ row.query_text = Trim(req[r].sent.query)
    /\ row.query_text = req[r].body.query
    /\ row.answer_text = served.answer
    /\ Len(row.resources_returned) = Len(served.resources)
    /\ \A i \in 1..Len(served.resources) :
            row.resources_returned[i] = served.resources[i].id
    /\ row.user_id = req[r].user.id

\* C28: for every request that was answered and for which a log row was
\* written, the row handed to the insert, and the row stored for the request
\* if the insert succeeded, has the validated (trimmed) query as
\* query_text, the answer of the response as answer_text, the ids of the
\* resources of the response, in their order, as resources_returned, and the
\* id of the identity authenticate attached as user_id.
C28_LogRowRecordsResponse ==
    \A r \in Requests :
        (Inserts(r) > 0 /\ pc[r] = "done")
        => /\ Answered(r, 200)
           /\ RecordsWhatWasServed(logRow[r], r)
           /\ \A q \in queries : q.id = r => q.row = logRow[r]
           /\ logState[r] = "inserted" => \E q \in queries : q.id = r

C28_Witness ==
    \E r \in Requests :
        /\ logState[r] = "inserted"
        /\ req[r].sent = StringQuery(Str(1, <<"R", "A", "G">>, 0, 1))
        /\ \E q \in queries :
                /\ q.id = r
                /\ q.row.user_id = "u1"
                /\ q.row.query_text = Str(0, <<"R", "A", "G">>, 0, 0)
                /\ q.row.answer_text = RagAnswer
                /\ Len(q.row.resources_returned) = MaxResults

\* ------------------------------------------------------------ C29
\* Each handle exists exactly when its two keys are set, and each flag says
\* so.
HandlesMatchKeys ==
    /\ supabase # "null" <=> (env.url /\ env.anonKey)
    /\ supabaseAdmin # "null" <=> (env.url /\ env.serviceRoleKey)
    /\ isSupabaseConfigured <=> supabase # "null"
    /\ isSupabaseAdminConfigured <=> supabaseAdmin # "null"

\* What the process holds for one request.
OfRequest(r) ==
    <<pc[r], req[r], trace[r], responses[r], answer[r], resources[r], ops[r],
      logState[r], logRow[r], identity[r], nexts[r], thrown[r], searchState[r]>>

\* A step leaves the environment and both handles as they are, and changes
\* what the process holds for one request at most.
SharedStateUntouched ==
    /\ env' = env
    /\ supabase' = supabase
    /\ supabaseAdmin' = supabaseAdmin
    /\ \A r, q \in Requests :
            (r # q /\ OfRequest(r)' # OfRequest(r)) => OfRequest(q)' = OfRequest(q)

AtMostOneResponse ==
    \A r \in Requests :
        /\ Len(responses[r]) <= 1
        /\ pc[r] = "done" => Len(responses[r]) = 1
        /\ Len(responses[r]) = 1 => pc[r] = "done"

\* C30: every request the service has received is eventually answered, and
\* answered exactly once, provided every ready callback runs and every
\* identity and search call settles: no path sends two responses or ends
\* with none, and the response does not wait for the log insert, which may
\* never settle.
C30_EveryRequestAnsweredOnce ==
    /\ []AtMostOneResponse
    /\ \A r \in Requests :
            (pc[r] # "idle") ~> (pc[r] = "done" /\ Len(responses[r]) = 1)

C30_Witness ==
    \E r \in Requests :
        /\ Answered(r, 200)
        /\ searchState[r] = "threw"
        /\ logState[r] = "pending"
        /\ identity[r].kind = "user"

====
